---- MODULE Spec2Model ----
(***************************************************************************)
(* Model of the Entry subsystem of xamin (src/src/xamin/entry): one Entry  *)
(* object of a concrete class bound to (at most) one file, the file it is  *)
(* bound to, and an external actor that modifies that file.                *)
(*                                                                         *)
(* Characters and bytes are modelled as the strings "a", ",", "LF", "CR",  *)
(* "Q" (double quote) and "xFF" (a byte that is not valid UTF-8).  A text  *)
(* or a byte string is a sequence of them.  A YAML document is modelled    *)
(* at line granularity (a sequence of line records).                       *)
(***************************************************************************)
EXTENDS Integers, Sequences, FiniteSets, TLC

\* ------------------------------------------------------------------ bounds
MaxTime == 3      \* the file's mtime takes the values 0..MaxTime
MaxTrace == 2     \* operations remembered after the last successful load()
MaxLen == 2       \* longest text / byte string / grid of the round-trip inputs
MaxLines == 2     \* most lines of a hint given to the type guesser
MaxObjs == 3      \* most entry objects created
MaxEntries == 3   \* most entries a project is given
MaxPersist == 2   \* most entries of a project whose state is taken

\* --------------------------------------------------------- program constants
hint_size == 2048
NoMtime == -1     \* _data_mtime = None
NoPath == "None"  \* path = None
ThePath == "p"

Classes == {"TextEntry", "BinaryEntry", "CsvEntry", "YamlEntry"}

encoding(c) == IF c = "BinaryEntry" THEN "bytes" ELSE "utf-8"

\* ------------------------------------------------------------- data values
\* The attribute _data: absent (never assigned), None, or a payload.
Absent == [kind |-> "absent", v |-> <<>>]
PyNone == [kind |-> "None", v |-> <<>>]
Val(x) == [kind |-> "val", v |-> x]

default_data(c) == Val(<<>>)

Range(s) == {s[i] : i \in 1..Len(s)}

RECURSIVE Concat(_)
Concat(ss) == IF ss = <<>> THEN <<>> ELSE Head(ss) \o Concat(Tail(ss))

Take(s, n) == SubSeq(s, 1, IF Len(s) < n THEN Len(s) ELSE n)

\* the hash "" of an entry without data
EmptyHash == <<"", <<>>>>

\* mutant: the hash does not depend on the data
hash_constant(d) == EmptyHash

\* Entry.hash: "" without data (or with None), else sha256 of the encoded
\* string, of the bytes, or of the pickle of the payload.  The digest is
\* modelled by its preimage; the pickle of a dict keeps its insertion order.
hash(d) == IF d.kind = "val" THEN <<"sha256", d.v>> ELSE EmptyHash

\* ------------------------------------------------------------------ hints
\* Hint.utf_8: the decoded text, or None when the bytes are not UTF-8.
utf_8(bytes) ==
    IF "xFF" \in Range(bytes) THEN [ok |-> FALSE, text |-> <<>>]
    ELSE [ok |-> TRUE, text |-> bytes]

\* Entry.get_hint: None without a path or when the file cannot be opened,
\* else the first hint_size bytes of the file.
get_hint(p, f) ==
    IF p = NoPath \/ ~f.exists THEN [some |-> FALSE, bytes |-> <<>>]
    ELSE [some |-> TRUE, bytes |-> Take(f.content, hint_size)]

\* ------------------------------------------------------------- file access
\* Path.read_text(encoding="utf-8"): decoding fails on invalid bytes; the
\* text mode translates CR LF and CR to LF.
RECURSIVE UniversalNewlines(_)
UniversalNewlines(s) ==
    IF s = <<>> THEN <<>>
    ELSE IF Head(s) = "CR"
         THEN IF Len(s) >= 2 /\ s[2] = "LF"
              THEN <<"LF">> \o UniversalNewlines(Tail(Tail(s)))
              ELSE <<"LF">> \o UniversalNewlines(Tail(s))
         ELSE <<Head(s)>> \o UniversalNewlines(Tail(s))

read_text(bytes) ==
    IF "xFF" \in Range(bytes) THEN [res |-> "UnicodeDecodeError", text |-> <<>>]
    ELSE [res |-> "ok", text |-> UniversalNewlines(bytes)]

\* ------------------------------------------------------------------- CSV
\* csv.Sniffer().sniff(text, delimiters=",\t") over texts without tabs and
\* quotes: it finds the comma when the text has a non-empty line and every
\* non-empty line has the same, positive, number of commas; else csv.Error.
RECURSIVE SplitLines(_, _)
SplitLines(s, cur) ==
    IF s = <<>> THEN <<cur>>
    ELSE IF Head(s) = "LF" THEN <<cur>> \o SplitLines(Tail(s), <<>>)
         ELSE SplitLines(Tail(s), Append(cur, Head(s)))

Commas(line) == Cardinality({i \in 1..Len(line) : line[i] = ","})

sniff(text) ==
    LET lines == {l \in Range(SplitLines(text, <<>>)) : l # <<>>}
    IN  /\ lines # {}
        /\ \A l \in lines : Commas(l) > 0
        /\ \A l1, l2 \in lines : Commas(l1) = Commas(l2)

\* CsvEntry.get_dialect(path): the hint is read from the path.
get_dialect(p, f) ==
    LET hint == get_hint(p, f)
    IN  IF hint.some /\ utf_8(hint.bytes).ok
        THEN IF sniff(utf_8(hint.bytes).text) THEN "ok" ELSE "csv.Error"
        ELSE "NotImplementedError"

\* csv.reader over one string of a single character (one "line").
csv_row(ch) ==
    IF ch = "," THEN <<"", "">>
    ELSE IF ch \in {"LF", "CR"} THEN <<>>
    ELSE IF ch = "Q" THEN <<"">>
    ELSE <<ch>>

\* csv.reader(str(serialized)): the iterable is a string, so every
\* character is taken as a line of its own.
csv_reader(text) == [i \in 1..Len(text) |-> csv_row(text[i])]

\* csv.writer(...).writerows(data) with the excel dialect: the text the
\* writer puts into the stream.
csv_field(cell) == IF cell = "" THEN <<>> ELSE <<cell>>

RECURSIVE csv_join(_)
csv_join(row) ==
    IF row = <<>> THEN <<>>
    ELSE IF Len(row) = 1 THEN csv_field(row[1])
    ELSE csv_field(row[1]) \o <<",">> \o csv_join(Tail(row))

csv_line(row) ==
    (IF row = <<"">> THEN <<"Q", "Q">> ELSE csv_join(row)) \o <<"CR", "LF">>

writerows(rows) == Concat([i \in 1..Len(rows) |-> csv_line(rows[i])])

\* StringIO: write() leaves the position at the end of the buffer, read()
\* returns what follows the position.
stream_read(buf, pos) == SubSeq(buf, pos + 1, Len(buf))

\* ------------------------------------------------------------------ YAML
\* A mapping payload is an ordered sequence of items with distinct keys
\* (a dict keeps insertion order); an item holds an integer or a mapping
\* of integers:  [k, kind \in {"int","map"}, n, sub].
KeyOrder == <<"a", "b", "c">>

IntItem(k, n) == [k |-> k, kind |-> "int", n |-> n, sub |-> <<>>]
MapItem(k, sub) == [k |-> k, kind |-> "map", n |-> 0, sub |-> sub]

NullLine == [ind |-> 0, k |-> "", t |-> "null", n |-> 0]
FlowEmptyLine == [ind |-> 0, k |-> "", t |-> "{}", n |-> 0]
Line(ind, k, t, n) == [ind |-> ind, k |-> k, t |-> t, n |-> n]

\* the items of a mapping in sorted key order (yaml.dump sorts the keys)
Sorted(items) ==
    LET at(k) == {i \in 1..Len(items) : items[i].k = k}
    IN  Concat([j \in 1..Len(KeyOrder) |->
                 IF at(KeyOrder[j]) = {} THEN <<>>
                 ELSE <<items[CHOOSE i \in at(KeyOrder[j]) : TRUE]>>])

item_lines(it) ==
    IF it.kind = "int" THEN <<Line(0, it.k, "int", it.n)>>
    ELSE IF it.sub = <<>> THEN <<Line(0, it.k, "{}", 0)>>
    ELSE <<Line(0, it.k, "nest", 0)>>
         \o LET s == Sorted([i \in 1..Len(it.sub) |-> IntItem(it.sub[i].k, it.sub[i].n)])
            IN  [i \in 1..Len(s) |-> Line(1, s[i].k, "int", s[i].n)]

\* yaml.dump(data, Dumper=SafeDumper)
yaml_dump(d) ==
    IF d.kind # "val" THEN <<NullLine>>
    ELSE IF d.v = <<>> THEN <<FlowEmptyLine>>
    ELSE LET s == Sorted(d.v)
         IN  Concat([i \in 1..Len(s) |-> item_lines(s[i])])

RECURSIVE yaml_parse(_, _)
yaml_parse(lines, acc) ==
    IF lines = <<>> THEN acc
    ELSE LET l == Head(lines)
         IN  IF l.ind = 0
             THEN yaml_parse(Tail(lines),
                     Append(acc, IF l.t = "int" THEN IntItem(l.k, l.n)
                                 ELSE MapItem(l.k, <<>>)))
             ELSE yaml_parse(Tail(lines),
                     [acc EXCEPT ![Len(acc)].sub =
                         Append(@, [k |-> l.k, n |-> l.n])])

\* yaml.load(serialized, Loader=SafeLoader): None for an empty or a null
\* document, else the mapping in document order.
yaml_load(lines) ==
    IF lines = <<>> \/ lines = <<NullLine>> THEN [res |-> "ok", d |-> PyNone]
    ELSE IF lines = <<FlowEmptyLine>> THEN [res |-> "ok", d |-> Val(<<>>)]
    ELSE IF Head(lines).ind # 0 THEN [res |-> "YAMLError", d |-> PyNone]
    ELSE [res |-> "ok", d |-> Val(yaml_parse(lines, <<>>))]

\* ------------------------------------------------- serialize / deserialize
\* serialize(data) of each class: the text or bytes handed to the file.
serialize(c, d) ==
    CASE c \in {"TextEntry", "BinaryEntry"} ->
            IF d.kind = "val" THEN [res |-> "ok", out |-> d.v]
            ELSE [res |-> "NotImplementedError", out |-> <<>>]
      [] c = "CsvEntry" ->
            IF d.kind = "val"
            THEN LET buf == writerows(d.v)
                 IN  [res |-> "ok", out |-> stream_read(buf, Len(buf))]
            ELSE [res |-> "TypeError", out |-> <<>>]
      [] c = "YamlEntry" -> [res |-> "ok", out |-> yaml_dump(d)]

\* deserialize(serialized) of each class, for an entry whose path is p and
\* whose file is f (CsvEntry reads the dialect from the file).
deserialize(c, serialized, p, f) ==
    CASE c \in {"TextEntry", "BinaryEntry"} -> [res |-> "ok", d |-> Val(serialized)]
      [] c = "CsvEntry" ->
            IF get_dialect(p, f) # "ok"
            THEN [res |-> get_dialect(p, f), d |-> PyNone]
            ELSE [res |-> "ok", d |-> Val(csv_reader(serialized))]
      [] c = "YamlEntry" -> yaml_load(serialized)

\* CsvEntry.shape of an entry whose data is d: rows and the cells of the
\* first row, or () for data without rows
csv_shape(d) ==
    IF d.kind = "val" /\ Len(d.v) > 0 THEN <<Len(d.v), Len(d.v[1])>> ELSE <<>>

\* Python's == on payloads: dicts compare without regard to key order.
DictSet(items) ==
    {[k |-> it.k, kind |-> it.kind, n |-> it.n, sub |-> Range(it.sub)] : it \in Range(items)}

PyEq(c, x, y) ==
    IF c = "YamlEntry"
    THEN x.kind = y.kind /\ DictSet(x.v) = DictSet(y.v)
    ELSE x = y


\* ========================================================= type registry
\* The hints of the type guesser are texts over "a", ",", "LF", "xFF" and
\* three more symbols that stand for longer texts:  ":" for ": " (colon,
\* space), "!" for the line "!Project" and "m" for the line "meta:".

\* the classes in the order their definitions register them
Registered ==
    <<"TextEntry", "PythonEntry", "HtmlEntry", "XmlEntry",
      "BinaryEntry", "CsvEntry", "YamlEntry", "Project">>

\* cls.__base__
base(c) ==
    CASE c \in {"TextEntry", "BinaryEntry", "CsvEntry", "YamlEntry"} -> "Entry"
      [] c \in {"PythonEntry", "HtmlEntry", "XmlEntry"} -> "TextEntry"
      [] c = "Project" -> "YamlEntry"
      [] OTHER -> "ABC"

\* mutant: a subclass scores as much as its parent
RECURSIVE score_flat(_)
score_flat(c) ==
    IF c = "TextEntry" \/ c = "BinaryEntry" THEN 5
    ELSE IF base(c) = "ABC" THEN 0
    ELSE score_flat(base(c))

\* score(): TextEntry and BinaryEntry return 5; any other class returns the
\* score of its base plus 10, and 0 when the base has no score (Entry).
RECURSIVE score(_)
score(c) ==
    IF c = "TextEntry" \/ c = "BinaryEntry" THEN 5
    ELSE IF base(c) = "ABC" THEN 0
    ELSE score(base(c)) + 10

\* sorted(..., key=score): a stable sort of the sequence s
RECURSIVE sorted_by_score(_)
sorted_by_score(s) ==
    IF s = <<>> THEN <<>>
    ELSE LET low == CHOOSE v \in {score(s[i]) : i \in 1..Len(s)} :
                        \A i \in 1..Len(s) : v <= score(s[i])
         IN  SelectSeq(s, LAMBDA c : score(c) = low)
             \o sorted_by_score(SelectSeq(s, LAMBDA c : score(c) # low))

\* Entry.subclasses(): the registered classes, iterated in the order of the
\* set, sorted by score
subclasses(order) == sorted_by_score(order)

\* Entry.guess_mimetype(path): by the suffix of the file name
guess_mimetype(p) ==
    CASE p = "f.py" -> "text/x-python"
      [] p = "f.html" -> "text/html"
      [] p = "f.xml" -> "application/xml"
      [] p = "f.txt" -> "text/plain"
      [] OTHER -> "None"

NoHint == [some |-> FALSE, bytes |-> <<>>]

\* str.splitlines(): the lines without their line ends
splitlines(text) ==
    LET s == SplitLines(text, <<>>)
    IN  IF s[Len(s)] = <<>> THEN SubSeq(s, 1, Len(s) - 1) ELSE s

\* what the YAML parser makes of one line at column 0
yaml_line(l) ==
    IF l = <<"!">> THEN "tag"
    ELSE IF l = <<"m">> \/ l = <<"a", ":">> THEN "null"
    ELSE IF /\ Len(l) >= 3 /\ l[1] = "a" /\ l[2] = ":" /\ l[3] = "a"
            /\ \A i \in 3..Len(l) : l[i] \in {"a", ","}
         THEN "pair"
    ELSE IF /\ l # <<>> /\ l[1] = "a"
            /\ \A i \in 1..Len(l) : l[i] \in {"a", ","}
         THEN "scalar"
    ELSE "bad"

\* yaml.load(block, Loader=SafeLoader): the kind of value it returns, or
\* the error it raises.  A "!Project" document needs the constructor that
\* Project.get_loader() adds to SafeLoader; project_constructor then builds
\* a Project from the mapping, and __setstate__ fails on "meta:" (None).
yaml_load_kind(block, loader_has_project) ==
    LET lines == SelectSeq(block, LAMBDA l : l # <<>>)
        kinds == [i \in 1..Len(lines) |-> yaml_line(lines[i])]
    IN  IF lines = <<>> THEN "None"
        ELSE IF \A i \in 1..Len(lines) : kinds[i] \in {"pair", "null"}
             THEN "mapping"
        ELSE IF \A i \in 1..Len(lines) : kinds[i] = "scalar" THEN "str"
        ELSE IF /\ kinds[1] = "tag" /\ Len(lines) >= 2
                /\ \A i \in 2..Len(lines) : kinds[i] \in {"pair", "null"}
             THEN IF ~loader_has_project THEN "ConstructorError"
                  ELSE IF \E i \in 2..Len(lines) : lines[i] = <<"m">>
                       THEN "TypeError"
                       ELSE "Project"
        ELSE "YAMLError"

\* re.match(r"!Project\n\s*(meta|entries):", text.strip())
project_match(text) ==
    LET lead == CHOOSE n \in 0..Len(text) :
                   /\ \A i \in 1..n : text[i] = "LF"
                   /\ (n < Len(text) => text[n + 1] # "LF")
        t == SubSeq(text, lead + 1, Len(text))
    IN  /\ Len(t) >= 3 /\ t[1] = "!" /\ t[2] = "LF"
        /\ \E j \in 3..Len(t) :
              /\ t[j] = "m"
              /\ \A i \in 3..(j - 1) : t[i] = "LF"

\* TextEntry.is_type: "True if hint and hint.utf_8 else False"
text_is_type(hint) ==
    hint.some /\ utf_8(hint.bytes).ok /\ utf_8(hint.bytes).text # <<>>

\* BinaryEntry.is_type: "False if hint and hint.utf_8 else True"
binary_is_type(hint) == ~text_is_type(hint)

\* cls.is_type(path, hint) of the class c: "True", "False", or the
\* exception that leaves it.  h is the hint argument (NoHint when omitted)
\* and f the file at the path.
is_type(c, p, h, f, loader_has_project) ==
    LET hint == IF h.some THEN h ELSE get_hint(p, f)
        text == utf_8(hint.bytes)
        B(b) == IF b THEN "True" ELSE "False"
    IN  CASE c = "TextEntry" -> B(text_is_type(hint))
          [] c = "BinaryEntry" -> B(binary_is_type(hint))
          [] c \in {"PythonEntry", "HtmlEntry", "XmlEntry"} ->
                IF p = NoPath THEN "TypeError"
                ELSE B(/\ text_is_type(hint)
                       /\ guess_mimetype(p) =
                            (CASE c = "PythonEntry" -> "text/x-python"
                               [] c = "HtmlEntry" -> "text/html"
                               [] c = "XmlEntry" -> "application/xml"))
          [] c = "CsvEntry" -> B(hint.some /\ text.ok /\ sniff(text.text))
          [] c = "YamlEntry" ->
                IF ~(hint.some /\ text.ok) THEN "False"
                ELSE LET lines == splitlines(text.text)
                         block == SubSeq(lines, 1, Len(lines) - 1)
                     IN  B(yaml_load_kind(block, loader_has_project)
                             \in {"mapping", "Project"})
          [] c = "Project" -> B(hint.some /\ text.ok /\ project_match(text.text))

\* the loop of guess_type over subclasses(): a class replaces the best one
\* when it accepts the hint and its score is strictly higher
RECURSIVE guess_loop(_, _, _, _, _, _, _)
guess_loop(cs, best, highest, p, hint, f, lp) ==
    IF cs = <<>> THEN best
    ELSE LET c == Head(cs)
             t == is_type(c, p, hint, f, lp)
         IN  IF t = "TypeError" THEN "TypeError"
             ELSE IF score(c) > highest /\ t = "True"
                  THEN guess_loop(Tail(cs), c, score(c), p, hint, f, lp)
                  ELSE guess_loop(Tail(cs), best, highest, p, hint, f, lp)

\* Entry.guess_type(path, hint): the class, "None", or the exception
guess_type(p, h, f, order, lp) ==
    LET hint == IF h.some THEN h ELSE get_hint(p, f)
    IN  IF ~hint.some THEN "None"
        ELSE guess_loop(subclasses(order), "None", 0, p, hint, f, lp)

\* ======================================================= paths and names
\* A path is the sequence of its parts, as Path.parts gives them: an
\* absolute path starts with "/", and Path("") has no parts.
Cwd == <<"/", "w">>

is_absolute(p) == p # <<>> /\ p[1] = "/"

\* Path.absolute()
absolute(p) == IF is_absolute(p) THEN p ELSE Cwd \o p

\* str(path)
RECURSIVE join(_)
join(parts) ==
    IF parts = <<>> THEN ""
    ELSE IF Len(parts) = 1 THEN parts[1]
    ELSE parts[1] \o "/" \o join(Tail(parts))

str(p) ==
    IF p = <<>> THEN "."
    ELSE IF is_absolute(p) THEN "/" \o join(Tail(p))
    ELSE join(p)

\* the longest common prefix of a non-empty set of sequences
common_prefix(ps) ==
    LET any == CHOOSE p \in ps : TRUE
        n == CHOOSE k \in 0..Len(any) :
                /\ \A p \in ps : Len(p) >= k /\ SubSeq(p, 1, k) = SubSeq(any, 1, k)
                /\ \A m \in (k + 1)..Len(any) :
                      \E p \in ps : Len(p) < m \/ SubSeq(p, 1, m) # SubSeq(any, 1, m)
    IN  SubSeq(any, 1, n)

\* Path(os.path.commonpath(paths)): ValueError for no paths and for a mix
\* of absolute and relative paths, else the longest common sub-path
commonpath(paths) ==
    LET ps == Range(paths)
    IN  IF ps = {} \/ (\E p, q \in ps : is_absolute(p) /\ ~is_absolute(q))
        THEN [ok |-> FALSE, path |-> <<>>]
        ELSE [ok |-> TRUE, path |-> common_prefix(ps)]

\* is_root(path) of xamin.utils.path: the path is the filesystem root
is_root(p) == p = <<"/">>

\* path.relative_to(other, walk_up=True) for a path under other
relative_to(p, other) == SubSeq(p, Len(other) + 1, Len(p))

\* ========================================================= entry objects
\* An entry object on the heap: its class and its path (has_path FALSE for
\* path = None).  Objects are identified by their index in the heap.
Obj(c, p) == [cls |-> c, has_path |-> TRUE, path |-> p]
ObjNoPath(c) == [cls |-> c, has_path |-> FALSE, path |-> <<>>]

\* Entry.__eq__(self, other)
entry_eq(self, other) ==
    /\ self.cls = other.cls
    /\ IF /\ self.has_path /\ other.has_path
          /\ absolute(self.path) # absolute(other.path)
       THEN FALSE
       ELSE /\ self.has_path = other.has_path
            /\ self.path = other.path

\* Entry.__getstate__ and Entry.__setstate__ on a new entry of the class
getstate(e) == [has_path |-> e.has_path, path |-> e.path]
setstate(c, state) == [cls |-> c, has_path |-> state.has_path, path |-> state.path]

\* ================================================================ Project
\* Project.entries is an ordered dict: a sequence of [name, id] items with
\* distinct names, id being the index of the entry object in the heap.
Names(entries) == {entries[i].name : i \in 1..Len(entries)}

\* entries[name] = id
setitem(entries, name, id) ==
    IF name \in Names(entries)
    THEN [i \in 1..Len(entries) |->
            IF entries[i].name = name THEN [name |-> name, id |-> id]
            ELSE entries[i]]
    ELSE Append(entries, [name |-> name, id |-> id])

Digits == <<"0", "1", "2", "3", "4", "5", "6", "7", "8", "9">>

\* Project.default_name.format(num=num)
default_name(num) == "<unsaved> (" \o Digits[num + 1] \o ")"

\* the name assign_unique_names gives the entry e at position num
unique_name(e, num, common) ==
    IF ~e.has_path THEN default_name(num)
    ELSE IF common.ok
         THEN IF absolute(common.path) = absolute(e.path)
              THEN e.path[Len(e.path)]
              ELSE IF is_root(common.path) THEN str(e.path)
              ELSE str(relative_to(absolute(e.path), absolute(common.path)))
    ELSE str(e.path)

RECURSIVE rename(_, _, _, _, _)
rename(ids, num, common, heap, acc) ==
    IF ids = <<>> THEN acc
    ELSE rename(Tail(ids), num + 1, common, heap,
                setitem(acc, unique_name(heap[Head(ids)], num, common), Head(ids)))

\* Project.assign_unique_names()
assign_unique_names(entries, heap) ==
    LET ids == [i \in 1..Len(entries) |-> entries[i].id]
        with_path == SelectSeq(ids, LAMBDA i : heap[i].has_path)
        paths == [k \in 1..Len(with_path) |-> heap[with_path[k]].path]
    IN  rename(ids, 1, commonpath(paths), heap, <<>>)

\* the first free default name, counting from num
RECURSIVE free_num(_, _)
free_num(entries, num) ==
    IF default_name(num) \in Names(entries) THEN free_num(entries, num + 1)
    ELSE num

\* the loop of add_entries over its arguments, each one entry object
RECURSIVE add_each(_, _)
add_each(entries, args) ==
    IF args = <<>> THEN entries
    ELSE add_each(setitem(entries, default_name(free_num(entries, 0)), Head(args)),
                  Tail(args))

\* Project.add_entries(*entries)
add_entries(entries, args, heap) ==
    assign_unique_names(add_each(entries, args), heap)

\* the files on disk that add_files can be given: a text file, a file of
\* bytes that are not UTF-8, and nothing at any other path
Disk(abs) ==
    CASE abs = <<"/", "d", "e">> ->
            [exists |-> TRUE, content |-> <<"a", "LF">>, mtime |-> 0]
      [] abs = <<"/", "w", "f">> ->
            [exists |-> TRUE, content |-> <<"xFF">>, mtime |-> 0]
      [] OTHER -> [exists |-> FALSE, content |-> <<>>, mtime |-> 0]

\* Project.add_files(path) of a project with the given entries: the
\* outcome, the entries and the heap afterwards
add_files(entries, heap, project_has_path, p, order, lp) ==
    LET ids == [i \in 1..Len(entries) |-> entries[i].id]
    IN  IF project_has_path /\ \E i \in Range(ids) : ~heap[i].has_path
        THEN [res |-> "AttributeError", entries |-> entries, heap |-> heap]
        ELSE LET existing_paths ==
                     IF project_has_path
                     THEN {absolute(heap[i].path) : i \in Range(ids)}
                     ELSE {}
                 f == Disk(absolute(p))
                 hint == get_hint(str(p), f)
                 c == guess_type(str(p), hint, f, order, lp)
             IN  IF absolute(p) \in existing_paths \/ c = "None"
                 THEN [res |-> "ok", heap |-> heap,
                       entries |-> add_entries(entries, <<>>, heap)]
                 ELSE LET h2 == Append(heap, Obj(c, p))
                      IN  [res |-> "ok", heap |-> h2,
                           entries |-> add_entries(entries, <<Len(h2)>>, h2)]

\* the loop of add_files over the paths that were not filtered out: the
\* entries created, appended to the heap, and their ids
RECURSIVE create_entries(_, _, _, _, _)
create_entries(paths, heap, ids, order, lp) ==
    IF paths = <<>> THEN [heap |-> heap, ids |-> ids]
    ELSE LET p == Head(paths)
             f == Disk(absolute(p))
             hint == get_hint(str(p), f)
             c == guess_type(str(p), hint, f, order, lp)
         IN  IF c = "None"
             THEN create_entries(Tail(paths), heap, ids, order, lp)
             ELSE create_entries(Tail(paths), Append(heap, Obj(c, p)),
                                 Append(ids, Len(heap) + 1), order, lp)

\* Project.add_files(*paths): the outcome, the entries and the heap
\* afterwards
add_files_paths(entries, heap, project_has_path, paths, order, lp) ==
    LET ids == [i \in 1..Len(entries) |-> entries[i].id]
    IN  IF project_has_path /\ \E i \in Range(ids) : ~heap[i].has_path
        THEN [res |-> "AttributeError", entries |-> entries, heap |-> heap]
        ELSE LET existing_paths ==
                     IF project_has_path
                     THEN {absolute(heap[i].path) : i \in Range(ids)}
                     ELSE {}
                 formatted_paths ==
                     SelectSeq(paths, LAMBDA a : absolute(a) \notin existing_paths)
                 made == create_entries(formatted_paths, heap, <<>>, order, lp)
             IN  [res |-> "ok", heap |-> made.heap,
                  entries |-> add_entries(entries, made.ids, made.heap)]

\* ==================================================== Project persistence
\* A project as an object: its path, its meta mapping (a sequence of
\* [key, value] items, as an OrderedDict keeps them) and its entries, a
\* sequence of [name, obj] items.  Every entry object has the same fields;
\* meta and entries are empty for an entry that is not a project.
PEntry(c, hp, p) ==
    [cls |-> c, has_path |-> hp, path |-> p, meta |-> <<>>, entries |-> <<>>]
PProject(hp, p, meta, entries) ==
    [cls |-> "Project", has_path |-> hp, path |-> p, meta |-> meta,
     entries |-> entries]

\* Project.meta of a new project: the version is set when meta is first read
DefaultMeta == <<[key |-> "version", value |-> "0.0.0"]>>

\* Path.parent
parent(p) == IF Len(p) <= 1 THEN (IF is_absolute(p) THEN p ELSE <<>>)
             ELSE SubSeq(p, 1, Len(p) - 1)

\* path.relative_to(other) succeeds: other is a leading part of path, and
\* both are absolute or both relative
is_relative_to(p, other) ==
    /\ is_absolute(p) = is_absolute(other)
    /\ Len(other) <= Len(p)
    /\ SubSeq(p, 1, Len(other)) = other

\* other / path
truediv(other, p) == IF is_absolute(p) THEN p ELSE other \o p

\* OrderedDict.update with the items of another mapping
RECURSIVE update(_, _)
update(d, items) ==
    IF items = <<>> THEN d
    ELSE LET it == Head(items)
             at == {i \in 1..Len(d) : d[i].key = it.key}
         IN  update(IF at = {} THEN Append(d, it)
                    ELSE [i \in 1..Len(d) |-> IF i \in at THEN it ELSE d[i]],
                    Tail(items))

\* Project.__getstate__ (Entry.__getstate__ for any other entry): the state
\* mapping, or the exception.  An entry's state holds its class name and its
\* path, made relative to the project's parent directory when it lies under
\* it; relative_to(None) of a project without a path raises TypeError, which
\* is not among the exceptions the method catches.
RECURSIVE get_state(_)
get_state(e) ==
    IF e.cls # "Project"
    THEN [res |-> "ok",
          state |-> [has_class |-> FALSE, class |-> "", has_path |-> e.has_path,
                     path |-> e.path, meta |-> <<>>, entries |-> <<>>]]
    ELSE LET project_path == parent(e.path)
             sub == [i \in 1..Len(e.entries) |-> get_state(e.entries[i].obj)]
             item(i) ==
                 LET st == sub[i].state
                     rel == e.has_path /\ st.has_path
                              /\ is_relative_to(st.path, project_path)
                 IN  [name |-> e.entries[i].name,
                      state |-> [st EXCEPT
                          !.has_class = TRUE,
                          !.class = e.entries[i].obj.cls,
                          !.path = IF rel
                                   THEN SubSeq(st.path, Len(project_path) + 1,
                                               Len(st.path))
                                   ELSE st.path]]
             raised == \/ \E i \in 1..Len(sub) : sub[i].res # "ok"
                       \/ /\ ~e.has_path
                          /\ \E i \in 1..Len(sub) : sub[i].state.has_path
         IN  IF raised
             THEN [res |-> "TypeError",
                   state |-> [has_class |-> FALSE, class |-> "",
                              has_path |-> FALSE, path |-> <<>>, meta |-> <<>>,
                              entries |-> <<>>]]
             ELSE [res |-> "ok",
                   state |-> [has_class |-> FALSE, class |-> "",
                              has_path |-> e.has_path, path |-> e.path,
                              meta |-> e.meta,
                              entries |-> [i \in 1..Len(sub) |-> item(i)]]]

\* entries[name] = obj in a project's mapping
set_entry(entries, name, obj) ==
    IF \E i \in 1..Len(entries) : entries[i].name = name
    THEN [i \in 1..Len(entries) |->
            IF entries[i].name = name THEN [name |-> name, obj |-> obj]
            ELSE entries[i]]
    ELSE Append(entries, [name |-> name, obj |-> obj])

\* mutant: every stored entry is taken for a registered one
is_recognized_always(st) == TRUE

\* the stored state of an entry names a class, and a registered one
is_recognized(st) == st.has_class /\ st.class \in Range(Registered)

\* Project.__setstate__(state) on the project self (Entry.__setstate__ for
\* another class): an entry whose state names no registered class is
\* skipped; the others are built by cls() and __setstate__, their paths
\* resolved against the parent directory of the project's path
RECURSIVE set_state(_, _)
set_state(self, state) ==
    IF self.cls # "Project"
    THEN [self EXCEPT !.has_path = state.has_path, !.path = state.path]
    ELSE LET project_path == parent(state.path)
             build(st) ==
                 LET st1 == IF state.has_path /\ st.has_path
                            THEN [st EXCEPT !.path =
                                     absolute(truediv(project_path, st.path))]
                            ELSE st
                     new == IF st.class = "Project"
                            THEN PProject(FALSE, <<>>, DefaultMeta, <<>>)
                            ELSE PEntry(st.class, FALSE, <<>>)
                 IN  set_state(new, st1)
             RECURSIVE fill(_, _)
             fill(entries, items) ==
                 IF items = <<>> THEN entries
                 ELSE LET it == Head(items)
                      IN  IF ~is_recognized(it.state)
                          THEN fill(entries, Tail(items))
                          ELSE fill(set_entry(entries, it.name, build(it.state)),
                                    Tail(items))
         IN  [self EXCEPT !.has_path = state.has_path, !.path = state.path,
                          !.meta = update(self.meta, state.meta),
                          !.entries = fill(self.entries, state.entries)]

\* ---------------------------------------------------------------- state
VARIABLES
    cls,          \* the concrete class of the entry
    path,         \* Entry.path: NoPath or ThePath
    file,         \* the file at ThePath: [exists, content, mtime]
    data,         \* Entry._data
    loaded_hash,  \* Entry._loaded_hash
    data_mtime,   \* Entry._data_mtime
    last,         \* the last operation, its outcome and the state before it
    trace,        \* the successful operations since the last successful load()
    rt,           \* a serialize / deserialize round trip: input, stage, results
    registry,     \* Entry._subclasses in the iteration order of the set
    safe_loader,  \* TRUE once yaml.SafeLoader has the "!Project" constructor
    gs,           \* type guessing: the last call, its arguments and result
    heap,         \* the entry objects created so far
    pj,           \* the Project: whether it has a path, and its entries
    plast,        \* the last operation on the project or on entry objects
    persist       \* a project's state being taken, stored and set again

\* the variables of the type registry
reg_vars == <<registry, safe_loader, gs>>

\* the variables of the project
proj_vars == <<heap, pj, plast, persist>>

aux_vars == <<reg_vars, proj_vars>>

vars == <<cls, path, file, data, loaded_hash, data_mtime, last, trace, rt,
          aux_vars>>

\* the entry's bookkeeping as one value
Entry == [data |-> data, loaded_hash |-> loaded_hash, data_mtime |-> data_mtime]

\* --------------------------------------------------------- derived flags
\* mutant: a file as old as the loaded data counts as newer
is_file_newer_or_equal(p, e, f) ==
    /\ p # NoPath
    /\ e.data_mtime # NoMtime
    /\ e.data_mtime <= f.mtime

\* Entry.is_file_newer
is_file_newer(p, e, f) ==
    /\ p # NoPath
    /\ e.data_mtime # NoMtime
    /\ e.data_mtime < f.mtime

\* Entry.is_stale
is_stale(p, e, f) ==
    IF e.data.kind = "absent" THEN TRUE
    ELSE IF p = NoPath THEN FALSE
    ELSE IF ~f.exists THEN FALSE
    ELSE IF e.data_mtime = NoMtime \/ e.data.kind = "None" THEN TRUE
    ELSE is_file_newer(p, e, f)

\* mutant: the path is not looked at
is_unsaved_by_hash_only(p, e) == hash(e.data) # e.loaded_hash

\* Entry.is_unsaved
is_unsaved(p, e) ==
    IF p = NoPath THEN TRUE
    ELSE hash(e.data) # e.loaded_hash

\* Entry.reset_hash
reset_hash(e) == [e EXCEPT !.loaded_hash = hash(e.data)]

\* Entry.reset_mtime (the caller has checked that the file can be stat'ed)
reset_mtime(p, e, f) ==
    IF p # NoPath THEN [e EXCEPT !.data_mtime = f.mtime] ELSE e

\* Entry.post_load and Entry.post_save
post_load(p, e, f) == reset_mtime(p, reset_hash(e), f)

\* ------------------------------------------------------------------ load
\* the file's contents as load() hands them to deserialize
read_file(c, f) ==
    IF encoding(c) = "bytes" \/ c = "YamlEntry"
    THEN [res |-> "ok", text |-> f.content]
    ELSE read_text(f.content)

\* mutant: the conflict is not checked
pre_load_unchecked(c, p, e, f) ==
    [e |-> IF e.data.kind = "absent" THEN [e EXCEPT !.data = default_data(c)] ELSE e,
     raise |-> FALSE]

\* Entry.pre_load: the entry after the default was filled in, and whether
\* FileChanged is raised
pre_load(c, p, e, f) ==
    LET e1 == IF e.data.kind = "absent" THEN [e EXCEPT !.data = default_data(c)] ELSE e
    IN  [e |-> e1, raise |-> is_file_newer(p, e1, f) /\ is_unsaved(p, e1)]

\* Entry.load: the outcome and the entry afterwards
load(c, p, e, f) ==
    LET pre == pre_load(c, p, e, f)
        e1 == pre.e
    IN  IF pre.raise THEN [res |-> "FileChanged", e |-> e1]
        ELSE IF p = NoPath THEN [res |-> "ok", e |-> post_load(p, e1, f)]
        ELSE IF ~f.exists THEN [res |-> "FileNotFoundError", e |-> e1]
        ELSE LET txt == read_file(c, f)
                 des == deserialize(c, txt.text, p, f)
             IN  IF txt.res # "ok" THEN [res |-> txt.res, e |-> e1]
                 ELSE IF des.res # "ok" THEN [res |-> des.res, e |-> e1]
                 ELSE [res |-> "ok",
                       e |-> post_load(p, [e1 EXCEPT !.data = des.d], f)]

\* mutant: the getter returns _data without looking at the staleness
data_get_without_load(c, p, e, f) == [res |-> "ok", e |-> e]

\* the getter of Entry.data: load when stale, then return _data
data_get(c, p, e, f) ==
    IF is_stale(p, e, f) THEN load(c, p, e, f) ELSE [res |-> "ok", e |-> e]

\* ------------------------------------------------------------------ save
\* mutant: a newer file blocks the save only when the data is unsaved too
pre_save_like_pre_load(p, e, f, overwrite) ==
    IF p = NoPath THEN "MissingPath"
    ELSE IF ~overwrite /\ is_file_newer(p, e, f) /\ is_unsaved(p, e) THEN "FileChanged"
    ELSE "ok"

\* Entry.pre_save: the exception raised, or "ok"
pre_save(p, e, f, overwrite) ==
    IF p = NoPath THEN "MissingPath"
    ELSE IF ~overwrite /\ e.data.kind # "absent" /\ is_stale(p, e, f) THEN "FileChanged"
    ELSE "ok"

\* Path.write_text / Path.write_bytes: dt is the advance of the file
\* system's clock since the file's last modification (0 within a tick)
write_file(f, out, dt) ==
    [exists |-> TRUE, content |-> out, mtime |-> f.mtime + dt]

\* Entry.post_save: reset_hash, then reset_mtime, whose stat() needs the file
post_save(p, e, f) ==
    IF p # NoPath /\ ~f.exists
    THEN [res |-> "FileNotFoundError", e |-> reset_hash(e)]
    ELSE [res |-> "ok", e |-> reset_mtime(p, reset_hash(e), f)]

\* mutant: the file is written whether or not the entry is unsaved
save_always_writes(c, p, e, f, overwrite, dt) ==
    LET chk == pre_save(p, e, f, overwrite)
        ser == serialize(c, e.data)
        writes == p # NoPath
        f1 == IF writes THEN write_file(f, ser.out, dt) ELSE f
        post == post_save(p, e, f1)
    IN  IF chk # "ok" THEN [res |-> chk, e |-> e, f |-> f, wrote |-> FALSE]
        ELSE IF writes /\ ser.res # "ok"
             THEN [res |-> ser.res, e |-> e, f |-> f, wrote |-> FALSE]
        ELSE [res |-> post.res, e |-> post.e, f |-> f1, wrote |-> writes]

\* Entry.save: the outcome, the entry and the file afterwards
save(c, p, e, f, overwrite, dt) ==
    LET chk == pre_save(p, e, f, overwrite)
        ser == serialize(c, e.data)
        writes == is_unsaved(p, e) /\ p # NoPath
        f1 == IF writes THEN write_file(f, ser.out, dt) ELSE f
        post == post_save(p, e, f1)
    IN  IF chk # "ok" THEN [res |-> chk, e |-> e, f |-> f, wrote |-> FALSE]
        ELSE IF writes /\ ser.res # "ok"
             THEN [res |-> ser.res, e |-> e, f |-> f, wrote |-> FALSE]
        ELSE [res |-> post.res, e |-> post.e, f |-> f1, wrote |-> writes]

\* ------------------------------------------------------------- the inputs
\* values a caller assigns to data
SetValues(c) ==
    CASE c = "TextEntry" -> {<<"a">>, <<"a", "LF">>}
      [] c = "BinaryEntry" -> {<<"a">>, <<"xFF">>}
      [] c = "CsvEntry" -> {<<>>, << <<"a", "">> >>}
      [] c = "YamlEntry" -> {<< IntItem("a", 1), IntItem("b", 1) >>,
                             << IntItem("b", 1), IntItem("a", 1) >>}

\* contents an external program gives the file
FileContents(c) ==
    CASE c = "TextEntry" -> {<<"a">>, <<"a", "LF">>, <<"xFF">>}
      [] c = "BinaryEntry" -> {<<"a">>, <<"xFF">>}
      [] c = "CsvEntry" -> {<<"a", ",", "a">>, <<"a">>}
      [] c = "YamlEntry" -> {<<>>,
                             <<Line(0, "a", "int", 1), Line(0, "b", "int", 1)>>,
                             <<Line(0, "b", "int", 1), Line(0, "a", "int", 1)>>}

\* ------------------------------------------------------------ bookkeeping
NoScenario == <<"...">>

Push(tr, op) ==
    IF tr = NoScenario \/ Len(tr) >= MaxTrace THEN NoScenario ELSE Append(tr, op)

Snapshot == [e |-> Entry, f |-> file, path |-> path, trace |-> trace]

Did(op, res, arg, wrote) ==
    [op |-> op, res |-> res, arg |-> arg, wrote |-> wrote, pre |-> Snapshot]

SetEntry(e) ==
    /\ data' = e.data
    /\ loaded_hash' = e.loaded_hash
    /\ data_mtime' = e.data_mtime

\* no round trip in progress
RTIdle == [c |-> "TextEntry", x |-> <<>>, p |-> NoPath, pc |-> "idle",
           res |-> "ok", ser |-> <<>>, out |-> PyNone]

\* no type guessing in progress
GIdle == [op |-> "idle", c |-> "", p |-> NoPath, h |-> NoHint,
          f |-> [exists |-> FALSE, content |-> <<>>, mtime |-> 0],
          res |-> "", n |-> 0, subs |-> <<>>]

\* a new Project(): no path, no entries
NewProject == [has_path |-> FALSE, entries |-> <<>>]

PIdle == [op |-> "init", res |-> "ok", a |-> <<>>, p |-> <<>>, name |-> ""]

\* no project state has been taken
PsIdle ==
    [pc |-> "idle", obj |-> PProject(FALSE, <<>>, DefaultMeta, <<>>),
     state |-> get_state(PProject(FALSE, <<>>, DefaultMeta, <<>>)).state,
     res |-> "ok", tamper |-> "none", at |-> 0, loc |-> <<>>,
     loaded |-> PProject(FALSE, <<>>, DefaultMeta, <<>>)]

ProjIdle ==
    /\ heap = <<>>
    /\ pj = NewProject
    /\ plast = PIdle
    /\ persist = PsIdle

AuxIdle ==
    /\ registry = Registered
    /\ safe_loader = FALSE
    /\ gs = GIdle
    /\ ProjIdle

\* ----------------------------------------------------------------- Init
Init ==
    /\ cls \in Classes
    /\ path \in {NoPath, ThePath}
    /\ file \in {[exists |-> FALSE, content |-> <<>>, mtime |-> 0]}
                \cup {[exists |-> TRUE, content |-> x, mtime |-> 0] : x \in FileContents(cls)}
    /\ data = Absent
    /\ loaded_hash = EmptyHash
    /\ data_mtime = NoMtime
    /\ last = [op |-> "init", res |-> "ok", arg |-> "", wrote |-> FALSE,
               pre |-> [e |-> [data |-> Absent, loaded_hash |-> EmptyHash,
                               data_mtime |-> NoMtime],
                        f |-> file, path |-> path, trace |-> NoScenario]]
    /\ trace = NoScenario
    /\ rt = RTIdle
    /\ AuxIdle

\* -------------------------------------------------------------- actions
\* entry.load()
Load ==
    LET r == load(cls, path, Entry, file)
    IN  /\ SetEntry(r.e)
        /\ last' = Did("load", r.res, "", FALSE)
        /\ trace' = IF r.res = "ok" THEN <<>> ELSE NoScenario
        /\ UNCHANGED <<cls, path, file, rt, aux_vars>>

\* x = entry.data
Read ==
    LET r == data_get(cls, path, Entry, file)
    IN  /\ SetEntry(r.e)
        /\ last' = Did("read", r.res, "", FALSE)
        /\ trace' = IF r.res = "ok" THEN Push(trace, "read") ELSE NoScenario
        /\ UNCHANGED <<cls, path, file, rt, aux_vars>>

\* entry.data = v
Set ==
    \E v \in SetValues(cls) :
        /\ data' = Val(v)
        /\ last' = Did("set", "ok", "", FALSE)
        /\ trace' = Push(trace, "set")
        /\ UNCHANGED <<cls, path, file, loaded_hash, data_mtime, rt, aux_vars>>

\* entry.data += extra: the getter, then the setter with a changed value
Mutate ==
    \E v \in SetValues(cls) :
        LET r == data_get(cls, path, Entry, file)
        IN  /\ Val(v) # r.e.data
            /\ SetEntry(IF r.res = "ok" THEN [r.e EXCEPT !.data = Val(v)] ELSE r.e)
            /\ last' = Did("mutate", r.res, "", FALSE)
            /\ trace' = IF r.res = "ok" THEN Push(trace, "mutate") ELSE NoScenario
            /\ UNCHANGED <<cls, path, file, rt, aux_vars>>

\* entry.save(overwrite)
Save ==
    \E overwrite \in BOOLEAN, dt \in {0, 1} :
        LET r == save(cls, path, Entry, file, overwrite, dt)
        IN  /\ r.f.mtime <= MaxTime
            /\ (~r.wrote => dt = 0)
            /\ SetEntry(r.e)
            /\ file' = r.f
            /\ last' = Did("save", r.res, IF overwrite THEN "overwrite" ELSE "", r.wrote)
            /\ trace' = IF r.res = "ok" THEN Push(trace, "save") ELSE NoScenario
            /\ UNCHANGED <<cls, path, rt, aux_vars>>

\* entry.path = ThePath on an entry without a path
SetPath ==
    /\ path = NoPath
    /\ path' = ThePath
    /\ last' = Did("setpath", "ok", "", FALSE)
    /\ trace' = NoScenario
    /\ UNCHANGED <<cls, file, data, loaded_hash, data_mtime, rt, aux_vars>>

\* another program touches the file: the mtime advances
Touch ==
    /\ file.exists
    /\ file.mtime < MaxTime
    /\ file' = [file EXCEPT !.mtime = @ + 1]
    /\ last' = Did("touch", "ok", "", FALSE)
    /\ trace' = Push(trace, "touch")
    /\ UNCHANGED <<cls, path, data, loaded_hash, data_mtime, rt, aux_vars>>

\* another program writes the file: content and mtime change
ExtWrite ==
    \E x \in FileContents(cls) :
        /\ file.mtime < MaxTime
        /\ file' = [exists |-> TRUE, content |-> x, mtime |-> file.mtime + 1]
        /\ last' = Did("extwrite", "ok", "", FALSE)
        /\ trace' = Push(trace, "extwrite")
        /\ UNCHANGED <<cls, path, data, loaded_hash, data_mtime, rt, aux_vars>>

Next == Load \/ Read \/ Set \/ Mutate \/ Save \/ SetPath \/ Touch \/ ExtWrite

Spec == Init /\ [][Next]_vars

\* the flags of the current state
Stale == is_stale(path, Entry, file)
Unsaved == is_unsaved(path, Entry)
FileNewer == is_file_newer(path, Entry, file)

\* the state is well formed; a recorded mtime implies a path and a file,
\* so the stat() of is_file_newer never fails
TypeOK ==
    /\ cls \in Classes
    /\ path \in {NoPath, ThePath}
    /\ file.mtime \in 0..MaxTime
    /\ data_mtime \in {NoMtime} \cup 0..MaxTime
    /\ data_mtime # NoMtime => path # NoPath /\ file.exists /\ data_mtime <= file.mtime


\* =================================================================== claims
\* the flags of the state before the last operation
PreUnsaved == is_unsaved(last.pre.path, last.pre.e)
PreNewer == is_file_newer(last.pre.path, last.pre.e, last.pre.f)
PreStale == is_stale(last.pre.path, last.pre.e, last.pre.f)
PreHasData == last.pre.e.data.kind # "absent"

\* C1: load() on an entry that holds unsaved data while the file is newer
\* than the recorded data_mtime raises FileChanged and leaves data,
\* loaded_hash and data_mtime as they were.
C1_LoadConflictRaises ==
    (last.op = "load" /\ PreHasData /\ PreNewer
        /\ hash(last.pre.e.data) # last.pre.e.loaded_hash)
    => (last.res = "FileChanged" /\ Entry = last.pre.e /\ file = last.pre.f)

C1_Witness ==
    /\ last.op = "load" /\ PreHasData /\ PreNewer
    /\ hash(last.pre.e.data) # last.pre.e.loaded_hash
    /\ last.res = "FileChanged"

\* C2: save(overwrite=False) on an entry with a path and loaded data raises
\* FileChanged and writes nothing whenever the file is newer than the
\* recorded mtime, whether or not the data is unsaved.
C2_SaveNewerFileRaises ==
    (last.op = "save" /\ last.arg = "" /\ last.pre.path # NoPath
        /\ PreHasData /\ PreNewer)
    => (last.res = "FileChanged" /\ ~last.wrote /\ file = last.pre.f)

C2_Witness ==
    /\ last.op = "save" /\ last.arg = "" /\ last.pre.path # NoPath
    /\ PreHasData /\ PreNewer /\ ~PreUnsaved
    /\ last.res = "FileChanged"

\* C3 as stated: after load, an external touch and a mutation of data
\* through the data property, load() raises FileChanged.
C3_LoadAfterTouchMutateRaises ==
    (last.op = "load" /\ last.pre.path # NoPath
        /\ last.pre.trace = <<"touch", "mutate">>)
    => last.res = "FileChanged"

\* C3 amended: after load, touch, mutate the read inside the mutation has
\* reloaded the file, so load() succeeds and replaces the mutated data by
\* the file's; after load, mutate, touch load() raises FileChanged and
\* keeps the mutated data.
C3_LoadAfterTouchMutateReloads ==
    /\ (last.op = "load" /\ last.pre.path # NoPath
            /\ last.pre.trace = <<"touch", "mutate">>)
       => (last.res = "ok" /\ data # last.pre.e.data /\ ~Unsaved)
    /\ (last.op = "load" /\ last.pre.path # NoPath
            /\ last.pre.trace = <<"mutate", "touch">>)
       => (last.res = "FileChanged" /\ Entry = last.pre.e)

C3_Witness ==
    /\ last.op = "load" /\ last.pre.path # NoPath
    /\ last.pre.trace = <<"touch", "mutate">>
    /\ last.res = "ok"

\* C4: from a freshly loaded entry (file not newer, not unsaved), touch
\* then mutate gives newer / not unsaved after the touch and not newer /
\* unsaved after the mutation; mutate then touch gives not newer / unsaved
\* after the mutation and newer / unsaved after the touch.
C4_FlagsDependOnOrder ==
    path # NoPath =>
        /\ trace = <<>> => (~FileNewer /\ ~Unsaved)
        /\ trace = <<"touch">> => (FileNewer /\ ~Unsaved)
        /\ trace = <<"touch", "mutate">> => (~FileNewer /\ Unsaved)
        /\ trace = <<"mutate">> => (~FileNewer /\ Unsaved)
        /\ trace = <<"mutate", "touch">> => (FileNewer /\ Unsaved)

C4_Witness ==
    /\ path # NoPath
    /\ trace = <<"touch", "mutate">>
    /\ ~FileNewer /\ Unsaved


\* the file content that holds the payload d of an entry of class c: the
\* text or bytes themselves, the rows as the csv writer writes them, the
\* YAML document of the mapping
FileHolds(c, content, d) ==
    CASE c \in {"TextEntry", "BinaryEntry"} -> content = d.v
      [] c = "CsvEntry" -> content = writerows(d.v)
      [] c = "YamlEntry" -> content = yaml_dump(d)

C5_Conflict ==
    /\ last.op = "save" /\ last.arg = "overwrite" /\ last.pre.e.data.kind = "val"
    /\ PreUnsaved /\ PreNewer


\* C6: save() on an entry that is not unsaved writes nothing; after a
\* successful save() the entry is not unsaved, so a second save() in a row
\* leaves the file's content and mtime as they are.
C6_SaveCleanIsNoOp ==
    /\ (last.op = "save" /\ ~PreUnsaved) => (~last.wrote /\ file = last.pre.f)
    /\ (last.op = "save" /\ last.res = "ok") => ~Unsaved
    /\ (last.op = "save" /\ last.pre.trace \in {<<"save">>, <<"mutate", "save">>})
       => (~last.wrote /\ file = last.pre.f)

C6_Witness ==
    /\ last.op = "save" /\ last.res = "ok"
    /\ last.pre.trace = <<"mutate", "save">>
    /\ file = last.pre.f

\* C7: an entry without a path is unsaved in every state, and save() on it
\* (overwrite False or True) raises MissingPath and writes nothing.
C7_NoPathNeverSaved ==
    /\ path = NoPath => Unsaved
    /\ (last.op = "save" /\ last.pre.path = NoPath)
       => (last.res = "MissingPath" /\ ~last.wrote
           /\ file = last.pre.f /\ Entry = last.pre.e)

C7_Witness ==
    /\ last.op = "save" /\ last.pre.path = NoPath
    /\ last.arg = "overwrite" /\ last.pre.e.data.kind = "val"
    /\ last.res = "MissingPath"

\* C8: an entry that was never loaded is stale; right after a successful
\* load() it is not stale; an external modification that advances the
\* file's mtime makes it stale; a further successful load() makes it not
\* stale again.
C8_StalenessFollowsFile ==
    /\ data.kind = "absent" => Stale
    /\ (last.op = "load" /\ last.res = "ok") => ~Stale
    /\ (last.op \in {"touch", "extwrite"} /\ path # NoPath) => Stale

\* C9 as stated: an entry with a path is not unsaved before its data is
\* first loaded and right after a load; mutating data makes it unsaved;
\* setting data to a value equal to the loaded one makes it not unsaved.
LoadedValue == Val(loaded_hash[2])

C9_DirtyByEquality ==
    path # NoPath =>
        /\ (data.kind = "absent" /\ loaded_hash = EmptyHash) => ~Unsaved
        /\ (last.op = "load" /\ last.res = "ok") => ~Unsaved
        /\ trace = <<"mutate">> => Unsaved
        /\ (trace = <<"mutate", "set">> /\ PyEq(cls, data, LoadedValue)) => ~Unsaved

\* C9 amended: as above, but data is not unsaved again only when it is set
\* to a value whose hashed form (encoded text, bytes, pickle) is that of
\* the loaded value; a mapping with the same items in another key order is
\* equal to the loaded one and still unsaved.
C9_DirtyByHash ==
    path # NoPath =>
        /\ (data.kind = "absent" /\ loaded_hash = EmptyHash) => ~Unsaved
        /\ (last.op = "load" /\ last.res = "ok") => ~Unsaved
        /\ trace = <<"mutate">> => Unsaved
        /\ trace = <<"mutate", "set">> => (Unsaved <=> data # LoadedValue)

C9_Witness ==
    /\ path # NoPath
    /\ trace = <<"mutate", "set">>
    /\ data = LoadedValue
    /\ ~Unsaved

C9_WitnessReordered ==
    /\ path # NoPath
    /\ trace = <<"mutate", "set">>
    /\ data # LoadedValue /\ PyEq(cls, data, LoadedValue)


\* ======================================================= the round trip
\* deserialize(serialize(x)) of one entry, for inputs of bounded size
SeqsUpTo(S, n) == UNION {[1..k -> S] : k \in 0..n}

YamlItems ==
    UNION {{IntItem(k, 1), MapItem(k, <<>>), MapItem(k, <<[k |-> "c", n |-> 1]>>)}
           : k \in {"a", "b"}}

Payloads(c) ==
    CASE c = "TextEntry" -> SeqsUpTo({"a", "LF"}, MaxLen)
      [] c = "BinaryEntry" -> SeqsUpTo({"a", "xFF"}, MaxLen)
      [] c = "CsvEntry" ->
            SeqsUpTo(SeqsUpTo({"", "a"}, MaxLen) \ {<<>>}, MaxLen)
      [] c = "YamlEntry" ->
            {m \in SeqsUpTo(YamlItems, MaxLen) :
                \A i, j \in 1..Len(m) : i # j => m[i].k # m[j].k}

\* the file of an entry with a path, during the round trip: comma separated
RTFile == [exists |-> TRUE, content |-> <<"a", ",", "a">>, mtime |-> 0]

InitRT ==
    /\ cls = "TextEntry"
    /\ path = NoPath
    /\ file = RTFile
    /\ data = Absent
    /\ loaded_hash = EmptyHash
    /\ data_mtime = NoMtime
    /\ last = [op |-> "init", res |-> "ok", arg |-> "", wrote |-> FALSE,
               pre |-> [e |-> [data |-> Absent, loaded_hash |-> EmptyHash,
                               data_mtime |-> NoMtime],
                        f |-> RTFile, path |-> NoPath, trace |-> NoScenario]]
    /\ trace = NoScenario
    /\ \E c \in Classes, p \in {NoPath, ThePath} :
         \E x \in Payloads(c) :
            /\ (c # "CsvEntry" => p = NoPath)
            /\ rt = [c |-> c, x |-> x, p |-> p, pc |-> "input",
                     res |-> "ok", ser |-> <<>>, out |-> PyNone]
    /\ AuxIdle

\* serialized = entry.serialize(x)
RTSerialize ==
    /\ rt.pc = "input"
    /\ LET r == serialize(rt.c, Val(rt.x))
       IN  rt' = [rt EXCEPT !.pc = "serialized", !.res = r.res, !.ser = r.out]
    /\ UNCHANGED <<cls, path, file, data, loaded_hash, data_mtime, last, trace,
                 aux_vars>>

\* out = entry.deserialize(serialized)
RTDeserialize ==
    /\ rt.pc = "serialized"
    /\ rt.res = "ok"
    /\ LET r == deserialize(rt.c, rt.ser, rt.p, file)
       IN  rt' = [rt EXCEPT !.pc = "done", !.res = r.res, !.out = r.d]
    /\ UNCHANGED <<cls, path, file, data, loaded_hash, data_mtime, last, trace,
                 aux_vars>>

NextRT == RTSerialize \/ RTDeserialize

SpecRT == InitRT /\ [][NextRT]_vars

\* C10: for every concrete class and every payload x of its type,
\* deserialize(serialize(x)) returns normally and equals x.
C10_RoundTrip ==
    rt.pc = "done" => (rt.res = "ok" /\ PyEq(rt.c, rt.out, Val(rt.x)))

\* the round trip of the classes other than CsvEntry
RoundTripButCsv ==
    (rt.pc = "done" /\ rt.c # "CsvEntry")
    => (rt.res = "ok" /\ PyEq(rt.c, rt.out, Val(rt.x)))


\* ==================================================== the type guesser
\* the lines a hint is made of: "a", "a,a", "a: a", "a: a,a", "!Project",
\* "meta:" and a line of bytes that are not UTF-8
GuessLines ==
    {<<"a">>, <<"a", ",", "a">>, <<"a", ":", "a">>,
     <<"a", ":", "a", ",", "a">>, <<"!">>, <<"m">>, <<"xFF">>}

GuessTexts ==
    {Concat([i \in 1..Len(ls) |-> ls[i] \o <<"LF">>]) :
        ls \in SeqsUpTo(GuessLines, MaxLines)}

GuessPaths == {NoPath, "f.txt", "f.py", "f.html", "f.xml"}

GuessFiles ==
    {[exists |-> FALSE, content |-> <<>>, mtime |-> 0]}
    \cup {[exists |-> TRUE, content |-> x, mtime |-> 0] : x \in GuessTexts}

HintArgs == {NoHint} \cup {[some |-> TRUE, bytes |-> x] : x \in GuessTexts}

Reverse(s) == [i \in 1..Len(s) |-> s[Len(s) + 1 - i]]

\* the iteration order of a set of classes is not the registration order:
\* it follows the hashes (addresses) of the class objects
IterationOrders ==
    {Registered, Reverse(Registered),
     SubSeq(Registered, 5, 8) \o SubSeq(Registered, 1, 4),
     Reverse(SubSeq(Registered, 5, 8) \o SubSeq(Registered, 1, 4))}

\* the arguments of a call: a hint is read from the file only when the
\* caller gives none
GuessArgs ==
    {a \in [p : GuessPaths, h : HintArgs, f : GuessFiles] :
        a.h.some => ~a.f.exists}

InitG ==
    /\ cls = "TextEntry"
    /\ path = NoPath
    /\ file = RTFile
    /\ data = Absent
    /\ loaded_hash = EmptyHash
    /\ data_mtime = NoMtime
    /\ last = [op |-> "init", res |-> "ok", arg |-> "", wrote |-> FALSE,
               pre |-> [e |-> [data |-> Absent, loaded_hash |-> EmptyHash,
                               data_mtime |-> NoMtime],
                        f |-> RTFile, path |-> NoPath, trace |-> NoScenario]]
    /\ trace = NoScenario
    /\ rt = RTIdle
    /\ registry \in IterationOrders
    /\ safe_loader = FALSE
    /\ \E a \in GuessArgs :
          gs = [GIdle EXCEPT !.op = "input", !.p = a.p, !.h = a.h, !.f = a.f]
    /\ ProjIdle

\* Entry.guess_type(path, hint)
GuessType ==
    /\ gs.op = "input"
    /\ gs' = [gs EXCEPT !.op = "guess_type",
                !.res = guess_type(gs.p, gs.h, gs.f, registry, safe_loader)]
    /\ UNCHANGED <<cls, path, file, data, loaded_hash, data_mtime, last,
                   trace, rt, registry, safe_loader,
                   proj_vars>>

\* c.is_type(path, hint) of a registered class c
IsType ==
    /\ gs.op = "input"
    /\ \E c \in Range(Registered) :
          gs' = [gs EXCEPT !.op = "is_type", !.c = c,
                   !.res = is_type(c, gs.p, gs.h, gs.f, safe_loader)]
    /\ UNCHANGED <<cls, path, file, data, loaded_hash, data_mtime, last,
                   trace, rt, registry, safe_loader,
                   proj_vars>>

\* c.score() of Entry or a registered class c
Score ==
    /\ gs.op = "input"
    /\ \E c \in Range(Registered) \cup {"Entry"} :
          gs' = [GIdle EXCEPT !.op = "score", !.c = c, !.n = score(c)]
    /\ UNCHANGED <<cls, path, file, data, loaded_hash, data_mtime, last,
                   trace, rt, registry, safe_loader,
                   proj_vars>>

\* Entry.subclasses()
Subclasses ==
    /\ gs.op = "input"
    /\ gs' = [GIdle EXCEPT !.op = "subclasses", !.subs = subclasses(registry)]
    /\ UNCHANGED <<cls, path, file, data, loaded_hash, data_mtime, last,
                   trace, rt, registry, safe_loader,
                   proj_vars>>

\* Project.get_loader(): adds the "!Project" constructor to yaml.SafeLoader
GetLoader ==
    /\ gs.op = "input"
    /\ ~safe_loader
    /\ safe_loader' = TRUE
    /\ UNCHANGED <<cls, path, file, data, loaded_hash, data_mtime, last,
                   trace, rt, registry, gs, proj_vars>>

NextG == GuessType \/ IsType \/ Score \/ Subclasses \/ GetLoader

SpecG == InitG /\ [][NextG]_vars

\* the hint a call works with, and the classes that accept it
GuessHint == IF gs.h.some THEN gs.h ELSE get_hint(gs.p, gs.f)

Accepting ==
    {c \in Range(Registered) :
        is_type(c, gs.p, GuessHint, gs.f, safe_loader) = "True"}

\* the selection of guess_type: a class that accepts the hint with the
\* highest score among those that do, and None when there is none
GuessSelectsBest ==
    IF ~GuessHint.some \/ Accepting = {}
    THEN gs.res = "None"
    ELSE /\ gs.res \in Accepting
         /\ \A c \in Accepting : score(c) <= score(gs.res)

\* C11: guess_type returns a class that accepts the hint and has the
\* highest score among the registered classes that accept it; it returns
\* None when no class accepts the hint or no hint can be obtained; bytes
\* that are not UTF-8 give BinaryEntry, and UTF-8 text that no more
\* specific class accepts gives TextEntry.
C11_GuessBest ==
    gs.op = "guess_type" =>
        /\ GuessSelectsBest
        /\ (GuessHint.some /\ ~utf_8(GuessHint.bytes).ok)
              => gs.res = "BinaryEntry"
        /\ (GuessHint.some /\ utf_8(GuessHint.bytes).ok
                /\ Accepting \subseteq {"TextEntry", "BinaryEntry"})
              => gs.res = "TextEntry"

\* what holds of guess_type: the selection, for every call with a path
GuessSelectsBestWithPath ==
    (gs.op = "guess_type" /\ gs.p # NoPath) => GuessSelectsBest

\* the position of a class in the registration order
RegIndex(c) == CHOOSE i \in 1..Len(Registered) : Registered[i] = c

\* C12: among the accepting classes of the highest score, guess_type
\* returns the one registered first, whatever the iteration order of the
\* registry.
C12_TieByRegistration ==
    (gs.op = "guess_type" /\ gs.res \in Range(Registered)) =>
        \A c \in Accepting :
            score(c) = score(gs.res) => RegIndex(gs.res) <= RegIndex(c)

\* C13: with a hint, TextEntry.is_type is true iff the bytes decode as
\* UTF-8 and BinaryEntry.is_type is true iff they do not.
C13_TextXorBinary ==
    (gs.op = "is_type" /\ GuessHint.some) =>
        /\ gs.c = "TextEntry" => (gs.res = "True" <=> utf_8(GuessHint.bytes).ok)
        /\ gs.c = "BinaryEntry" => (gs.res = "True" <=> ~utf_8(GuessHint.bytes).ok)

\* C14: for a path without a readable file, get_hint gives None and
\* is_type(path) of every registered class returns False.
C14_MissingPathIsNoType ==
    (gs.op = "is_type" /\ ~gs.h.some /\ gs.p # NoPath /\ ~gs.f.exists) =>
        /\ ~get_hint(gs.p, gs.f).some
        /\ gs.res = "False"

\* C15: Entry scores 0, TextEntry and BinaryEntry 5, a class under Entry
\* 10, a class under TextEntry 15, Project (under YamlEntry) 20; the
\* format-specific classes score more than TextEntry and BinaryEntry; and
\* subclasses() lists every registered class once, in ascending score.
C15_ScoresFollowHierarchy ==
    /\ gs.op = "score" =>
          /\ gs.c = "Entry" => gs.n = 0
          /\ gs.c \in {"TextEntry", "BinaryEntry"} => gs.n = 5
          /\ gs.c \in {"CsvEntry", "YamlEntry"} => gs.n = 0 + 10
          /\ gs.c \in {"PythonEntry", "HtmlEntry", "XmlEntry"} => gs.n = 5 + 10
          /\ gs.c = "Project" => gs.n = 10 + 10
          /\ gs.c \notin {"Entry", "TextEntry", "BinaryEntry"} => gs.n > 5
    /\ gs.op = "subclasses" =>
          /\ Len(gs.subs) = Len(Registered)
          /\ Range(gs.subs) = Range(Registered)
          /\ \A i, j \in 1..Len(gs.subs) :
                i < j => score(gs.subs[i]) <= score(gs.subs[j])

C15_Witness ==
    /\ gs.op = "score"
    /\ gs.c = "Project"
    /\ gs.n = 20

\* ============================================================ the project
EntryPaths ==
    {<<"/", "d">>, <<"/", "d", "d">>, <<"/", "d", "e">>,
     <<"f">>, <<"/", "w", "f">>}

\* the entries a caller creates: text entries at each path and without a
\* path, and a binary entry at a path that a text entry can have too
NewEntries ==
    {Obj("TextEntry", p) : p \in EntryPaths}
    \cup {Obj("BinaryEntry", <<"/", "d", "e">>), ObjNoPath("TextEntry")}

\* the paths of an add_files call with several paths: a path with no file
\* first or last, and two files
AddFilesArgs ==
    {<<<<"/", "d", "d">>, <<"/", "d", "e">>>>,
     <<<<"/", "d", "e">>, <<"/", "d", "d">>>>,
     <<<<"/", "d", "e">>, <<"/", "w", "f">>>>}

\* what stays as it is while the project or an entry object is worked on
EntryIdle ==
    UNCHANGED <<cls, path, file, data, loaded_hash, data_mtime, last, trace,
                rt, reg_vars, persist>>

InitP ==
    /\ cls = "TextEntry"
    /\ path = NoPath
    /\ file = RTFile
    /\ data = Absent
    /\ loaded_hash = EmptyHash
    /\ data_mtime = NoMtime
    /\ last = [op |-> "init", res |-> "ok", arg |-> "", wrote |-> FALSE,
               pre |-> [e |-> [data |-> Absent, loaded_hash |-> EmptyHash,
                               data_mtime |-> NoMtime],
                        f |-> RTFile, path |-> NoPath, trace |-> NoScenario]]
    /\ trace = NoScenario
    /\ rt = RTIdle
    /\ registry = Registered
    /\ safe_loader = FALSE
    /\ gs = GIdle
    /\ ProjIdle

PDid(op, res, a, p, name) ==
    [op |-> op, res |-> res, a |-> a, p |-> p, name |-> name]

\* e = cls(path) or e = cls()
NewEntry ==
    /\ Len(heap) < MaxObjs
    /\ \E e \in NewEntries :
          /\ heap' = Append(heap, e)
          /\ plast' = PDid("new", "ok", <<Len(heap) + 1>>, e.path, "")
    /\ UNCHANGED pj
    /\ EntryIdle

\* loaded = e.__class__(path=None); loaded.__setstate__(e.__getstate__())
Restore ==
    /\ Len(heap) < MaxObjs
    /\ \E i \in 1..Len(heap) :
          /\ heap' = Append(heap, setstate(heap[i].cls, getstate(heap[i])))
          /\ plast' = PDid("restore", "ok", <<i, Len(heap) + 1>>, <<>>, "")
    /\ UNCHANGED pj
    /\ EntryIdle

\* a == b for two entry objects
Compare ==
    /\ \E i, j \in 1..Len(heap) :
          plast' = PDid("eq", IF entry_eq(heap[i], heap[j]) THEN "True" ELSE "False",
                        <<i, j>>, <<>>, "")
    /\ UNCHANGED <<heap, pj>>
    /\ EntryIdle

\* project.path = a path
SetProjectPath ==
    /\ ~pj.has_path
    /\ pj' = [pj EXCEPT !.has_path = TRUE]
    /\ plast' = PDid("setpath", "ok", <<>>, <<>>, "")
    /\ UNCHANGED heap
    /\ EntryIdle

\* project.add_entries(e)
AddEntries ==
    /\ Len(pj.entries) < MaxEntries
    /\ \E i \in 1..Len(heap) :
          /\ pj' = [pj EXCEPT !.entries = add_entries(pj.entries, <<i>>, heap)]
          /\ plast' = PDid("add_entries", "ok", <<i>>, <<>>, "")
    /\ UNCHANGED heap
    /\ EntryIdle

\* project.add_entries(*entries) with every entry object there is, on a
\* project without entries, as Project(entries=entries) does
AddEntriesAll ==
    /\ pj.entries = <<>>
    /\ Len(heap) >= 2
    /\ LET args == [i \in 1..Len(heap) |-> i]
       IN  /\ pj' = [pj EXCEPT !.entries = add_entries(pj.entries, args, heap)]
           /\ plast' = PDid("add_entries", "ok", args, <<>>, "")
    /\ UNCHANGED heap
    /\ EntryIdle

\* project.add_files(path)
AddFiles ==
    /\ Len(heap) < MaxObjs
    /\ Len(pj.entries) < MaxEntries
    /\ \E p \in {<<"/", "d", "e">>, <<"/", "w", "f">>, <<"f">>, <<"/", "d", "d">>} :
          LET r == add_files(pj.entries, heap, pj.has_path, p, registry, safe_loader)
          IN  /\ pj' = [pj EXCEPT !.entries = r.entries]
              /\ heap' = r.heap
              /\ plast' = PDid("add_files", r.res, <<>>, p, "")
    /\ EntryIdle

\* project.add_files(p1, p2)
AddFilesMany ==
    /\ Len(heap) + 2 <= MaxObjs
    /\ Len(pj.entries) < MaxEntries
    /\ \E ps \in AddFilesArgs :
          LET r == add_files_paths(pj.entries, heap, pj.has_path, ps, registry,
                                   safe_loader)
          IN  /\ pj' = [pj EXCEPT !.entries = r.entries]
              /\ heap' = r.heap
              /\ plast' = PDid("add_files_many", r.res, <<>>, ps, "")
    /\ EntryIdle

\* project.assign_unique_names()
AssignUniqueNames ==
    /\ pj' = [pj EXCEPT !.entries = assign_unique_names(pj.entries, heap)]
    /\ plast' = PDid("assign_unique_names", "ok", <<>>, <<>>, "")
    /\ UNCHANGED heap
    /\ EntryIdle

\* del project.entries[name]
DelEntry ==
    /\ \E k \in 1..Len(pj.entries) :
          /\ pj' = [pj EXCEPT !.entries =
                      SubSeq(@, 1, k - 1) \o SubSeq(@, k + 1, Len(@))]
          /\ plast' = PDid("del", "ok", <<pj.entries[k].id>>, <<>>, pj.entries[k].name)
    /\ UNCHANGED heap
    /\ EntryIdle

NextP ==
    \/ NewEntry \/ SetProjectPath
    \/ AddEntries \/ AddEntriesAll \/ AddFiles \/ AddFilesMany \/ AssignUniqueNames \/ DelEntry

SpecP == InitP /\ [][NextP]_vars

\* entry objects on their own: created, copied through their state, compared
NextE == NewEntry \/ Restore \/ Compare

SpecE == InitP /\ [][NextE]_vars

\* the resolved absolute path of an entry object, or no path
resolved(e) == IF e.has_path THEN <<absolute(e.path)>> ELSE <<>>

\* C16: two entries are equal iff they have the same concrete class and the
\* same resolved absolute path: whenever a == b was evaluated, it gave True
\* exactly for two objects of one class with one absolute path (a relative
\* path and its absolute form included), b == a gives the same, and an entry
\* rebuilt from another's state equals the original.
C16_EqualByClassAndAbsolutePath ==
    /\ plast.op = "eq" =>
          LET a == heap[plast.a[1]]
              b == heap[plast.a[2]]
          IN  /\ (plast.res = "True") <=> (a.cls = b.cls /\ resolved(a) = resolved(b))
              /\ entry_eq(a, b) <=> entry_eq(b, a)
    /\ plast.op = "restore" =>
          /\ entry_eq(heap[plast.a[1]], heap[plast.a[2]])
          /\ entry_eq(heap[plast.a[2]], heap[plast.a[1]])

\* what the code does hold to: equality is symmetric, a rebuilt entry equals
\* the original, and equal entries have one class and one absolute path
EqualitySymmetricAndRestored ==
    /\ plast.op = "eq" =>
          LET a == heap[plast.a[1]]
              b == heap[plast.a[2]]
          IN  /\ (plast.res = "True") =>
                    (a.cls = b.cls /\ resolved(a) = resolved(b))
              /\ (plast.res = "True") <=> (a.cls = b.cls /\ a.has_path = b.has_path
                                            /\ a.path = b.path)
              /\ entry_eq(a, b) <=> entry_eq(b, a)
    /\ plast.op = "restore" =>
          /\ entry_eq(heap[plast.a[1]], heap[plast.a[2]])
          /\ entry_eq(heap[plast.a[2]], heap[plast.a[1]])

\* the entry objects of a project, in the order of its mapping
Ids(entries) == [i \in 1..Len(entries) |-> entries[i].id]

\* no entry object is in the mapping under two names
Distinct(entries) ==
    \A i, j \in 1..Len(entries) : entries[i].id = entries[j].id => i = j

\* the mapping that the assign_unique_names() of a step was called on: the
\* project's entries, after add_entries has put its arguments into them
Renamed(pre, last_op) ==
    IF last_op.op = "add_entries" THEN add_each(pre, last_op.a) ELSE pre

\* C17: assign_unique_names() gives a bijective mapping of names to the
\* entries: called on a mapping of distinct entries, by itself or at the end
\* of add_entries, it leaves every entry that was there under exactly one
\* name, no name twice, and the number of entries what it was.
C17_NamesBijective ==
    [][/\ plast'.op \in {"assign_unique_names", "add_entries"}
       /\ Distinct(Renamed(pj.entries, plast'))
       => LET before == Renamed(pj.entries, plast')
          IN  /\ Range(Ids(pj'.entries)) = Range(Ids(before))
              /\ Distinct(pj'.entries)
              /\ \A i, j \in 1..Len(pj'.entries) :
                    pj'.entries[i].name = pj'.entries[j].name => i = j
              /\ Len(pj'.entries) = Len(before)]_vars

\* what the code does hold to: no name is there twice, and no entry
\* appears that was not there
NamesDistinct ==
    [][plast'.op \in {"assign_unique_names", "add_entries"}
       => LET before == Renamed(pj.entries, plast')
          IN  /\ Range(Ids(pj'.entries)) \subseteq Range(Ids(before))
              /\ \A i, j \in 1..Len(pj'.entries) :
                    pj'.entries[i].name = pj'.entries[j].name => i = j
              /\ Len(pj'.entries) <= Len(before)]_vars

\* the position of the entry object id in a mapping of distinct entries
PosOf(entries, id) == CHOOSE k \in 1..Len(entries) : entries[k].id = id

\* the name that is derived for the entry at position k of the mapping
\* before, all of whose paths are absolute: "<unsaved> (k)" without a path,
\* else the full path under the root as common prefix, else what is left of
\* the path after the common prefix, or the filename when nothing is left
DerivedName(before, k, objs) ==
    LET e == objs[before[k].id]
        ps == {objs[before[i].id].path :
                 i \in {i \in 1..Len(before) : objs[before[i].id].has_path}}
        prefix == common_prefix(ps)
        rest == SubSeq(e.path, Len(prefix) + 1, Len(e.path))
    IN  IF ~e.has_path THEN default_name(k)
        ELSE IF prefix = <<"/">> THEN str(e.path)
        ELSE IF rest # <<>> THEN join(rest)
        ELSE e.path[Len(e.path)]

\* every path of the mapping is an absolute one
AllAbsolute(entries, objs) ==
    \A i \in 1..Len(entries) :
        objs[entries[i].id].has_path => is_absolute(objs[entries[i].id].path)

\* each entry that assign_unique_names() left in the project has the name
\* derived for it
NamesDerived ==
    [][/\ plast'.op \in {"assign_unique_names", "add_entries"}
       /\ Distinct(Renamed(pj.entries, plast'))
       /\ AllAbsolute(Renamed(pj.entries, plast'), heap)
       => LET before == Renamed(pj.entries, plast')
          IN  \A i \in 1..Len(pj'.entries) :
                 pj'.entries[i].name =
                    DerivedName(before, PosOf(before, pj'.entries[i].id), heap)]_vars

\* C18: assign_unique_names() names each entry from the longest common
\* prefix of the paths ("<unsaved> (N)" by position without a path, the full
\* path under the root, else the path relative to the prefix or the
\* filename), also when it runs again after an entry was removed, and it
\* keeps the entries in the order they were in.
C18_NamesDerivedInOrder ==
    [][/\ plast'.op \in {"assign_unique_names", "add_entries"}
       /\ Distinct(Renamed(pj.entries, plast'))
       /\ AllAbsolute(Renamed(pj.entries, plast'), heap)
       => LET before == Renamed(pj.entries, plast')
          IN  /\ \A i \in 1..Len(pj'.entries) :
                    pj'.entries[i].name =
                       DerivedName(before, PosOf(before, pj'.entries[i].id), heap)
              /\ \A i, j \in 1..Len(pj'.entries) :
                    i < j => PosOf(before, pj'.entries[i].id)
                                < PosOf(before, pj'.entries[j].id)]_vars

\* how many names of a mapping the entry object id is under
Count(entries, id) == Cardinality({k \in 1..Len(entries) : entries[k].id = id})

\* C19: add_entries of an entry object that the project already contains
\* leaves the number of entries as it was, and the object under one name,
\* with a path and without.
C19_AddTwiceIsOnce ==
    [][/\ plast'.op = "add_entries"
       /\ plast'.a[1] \in Range(Ids(pj.entries))
       /\ Distinct(pj.entries)
       => /\ Len(pj'.entries) = Len(pj.entries)
          /\ Count(pj'.entries, plast'.a[1]) = 1]_vars

\* what the code does hold to: an entry object with a path that the
\* project contains is in the project once after it is added again
AddTwiceWithPathIsOnce ==
    [][/\ plast'.op = "add_entries"
       /\ plast'.a[1] \in Range(Ids(pj.entries))
       /\ heap[plast'.a[1]].has_path
       => Count(pj'.entries, plast'.a[1]) = 1]_vars

\* some entry of the mapping has the path p, compared as absolute paths
HasPath(entries, objs, p) ==
    \E i \in 1..Len(entries) :
        /\ objs[entries[i].id].has_path
        /\ absolute(objs[entries[i].id].path) = absolute(p)

\* C20: add_files with a path that an entry of the project already has
\* raises nothing and leaves the entries as they were, the same objects in
\* the same order, whether or not the project has a path of its own and
\* whether or not it has path-less entries.
C20_AddFilesSkipsPresent ==
    [][/\ plast'.op = "add_files"
       /\ HasPath(pj.entries, heap, plast'.p)
       => /\ plast'.res = "ok"
          /\ Ids(pj'.entries) = Ids(pj.entries)]_vars

\* what the code does hold to: in a project with a path of its own and no
\* path-less entry, a path that is present is skipped
AddFilesSkipsPresentInSavedProject ==
    [][/\ plast'.op = "add_files"
       /\ HasPath(pj.entries, heap, plast'.p)
       /\ pj.has_path
       /\ \A i \in 1..Len(pj.entries) : heap[pj.entries[i].id].has_path
       => /\ plast'.res = "ok"
          /\ Ids(pj'.entries) = Ids(pj.entries)]_vars

\* Entry.guess_type(path) for a path given to add_files
GuessOf(p) == guess_type(str(p), NoHint, Disk(absolute(p)), registry, safe_loader)

\* the paths of a call that are not in the project and have a type
Addable(ps, entries, objs) ==
    SelectSeq(ps, LAMBDA p : ~HasPath(entries, objs, p) /\ GuessOf(p) # "None")

\* the call added one entry for each of the paths, of the guessed class and
\* with that path, after the entries that were there
AddedAll(ps, before, after, objs) ==
    /\ Len(after) = Len(before) + Len(ps)
    /\ \A i \in 1..Len(before) : after[i].id = before[i].id
    /\ \A k \in 1..Len(ps) :
          LET e == objs[after[Len(before) + k].id]
          IN  e = Obj(GuessOf(ps[k]), ps[k])

\* C21: add_files with paths that are not in the project adds one entry for
\* each path that has a type, of the class Entry.guess_type(path) and with
\* that path; a path for which guess_type gives None is skipped, nothing is
\* raised for it, and the other paths of the call are still added.
C21_AddFilesAddsGuessed ==
    [][/\ plast'.op \in {"add_files", "add_files_many"}
       /\ LET ps == IF plast'.op = "add_files" THEN <<plast'.p>> ELSE plast'.p
          IN  \A k \in 1..Len(ps) : ~HasPath(pj.entries, heap, ps[k])
       => LET ps == IF plast'.op = "add_files" THEN <<plast'.p>> ELSE plast'.p
          IN  /\ plast'.res = "ok"
              /\ AddedAll(Addable(ps, pj.entries, heap), pj.entries,
                          pj'.entries, heap')]_vars

\* what the code does hold to: in a project none of whose entries is
\* path-less, the paths that have a type are added and the others skipped
AddFilesWithoutPathlessEntry ==
    [][/\ plast'.op \in {"add_files", "add_files_many"}
       /\ \A i \in 1..Len(pj.entries) : heap[pj.entries[i].id].has_path
       /\ LET ps == IF plast'.op = "add_files" THEN <<plast'.p>> ELSE plast'.p
          IN  \A k \in 1..Len(ps) : ~HasPath(pj.entries, heap, ps[k])
       => LET ps == IF plast'.op = "add_files" THEN <<plast'.p>> ELSE plast'.p
          IN  /\ plast'.res = "ok"
              /\ AddedAll(Addable(ps, pj.entries, heap), pj.entries,
                          pj'.entries, heap')]_vars

\* ================================================= the project's state
\* the entries of a project whose state is taken: files under the
\* project's directory and elsewhere, a relative path, no path, and a
\* project with an entry of its own
PersistEntries ==
    {PEntry("TextEntry", TRUE, <<"/", "p", "a">>),
     PEntry("BinaryEntry", TRUE, <<"/", "p", "q", "b">>),
     PEntry("TextEntry", TRUE, <<"/", "w", "f">>),
     PEntry("TextEntry", TRUE, <<"f">>),
     PEntry("TextEntry", FALSE, <<>>),
     PProject(TRUE, <<"/", "p", "q", "n">>, DefaultMeta,
              <<[name |-> "b",
                 obj |-> PEntry("TextEntry", TRUE, <<"/", "p", "q", "b">>)]>>)}

\* the paths of the project: in a directory that is not the working
\* directory, in the working directory, and a relative path
ProjectPaths == {<<"/", "p", "j">>, <<"/", "w", "j">>, <<"j">>}

\* the meta mappings of the project
Metas == {DefaultMeta, Append(DefaultMeta, [key |-> "k", value |-> "v"])}

\* sequences of distinct elements of S, of length up to n
RECURSIVE DistinctSeqs(_, _)
DistinctSeqs(S, n) ==
    IF n = 0 THEN {<<>>}
    ELSE LET shorter == DistinctSeqs(S, n - 1)
             longest == {r \in shorter : Len(r) = n - 1}
         IN  shorter \cup
             UNION {{Append(r, x) : x \in {y \in S : y \notin Range(r)}} :
                      r \in longest}

\* project = Project(entries=objs); project.path = p
MakeProject(p, meta, objs) ==
    LET named == add_entries(<<>>, [i \in 1..Len(objs) |-> i], objs)
    IN  PProject(TRUE, p, meta,
                 [i \in 1..Len(named) |->
                    [name |-> named[i].name, obj |-> objs[named[i].id]]])

\* Project.load() of a project whose path is loc and whose file holds the
\* document doc: the loaded project's meta and entries are taken over, and
\* so is its path
project_load(loc, doc) ==
    LET self == PProject(TRUE, loc, <<>>, <<>>)
        loaded_project == set_state(PProject(FALSE, <<>>, DefaultMeta, <<>>), doc)
    IN  [self EXCEPT !.meta = loaded_project.meta,
                     !.entries = loaded_project.entries,
                     !.has_path = loaded_project.has_path,
                     !.path = loaded_project.path]

\* what stays as it is while a project's state is taken and set
PersistFrame ==
    UNCHANGED <<cls, path, file, data, loaded_hash, data_mtime, last, trace,
                rt, reg_vars, heap, pj, plast>>

InitS ==
    /\ cls = "TextEntry"
    /\ path = NoPath
    /\ file = RTFile
    /\ data = Absent
    /\ loaded_hash = EmptyHash
    /\ data_mtime = NoMtime
    /\ last = [op |-> "init", res |-> "ok", arg |-> "", wrote |-> FALSE,
               pre |-> [e |-> [data |-> Absent, loaded_hash |-> EmptyHash,
                               data_mtime |-> NoMtime],
                        f |-> RTFile, path |-> NoPath, trace |-> NoScenario]]
    /\ trace = NoScenario
    /\ rt = RTIdle
    /\ registry = Registered
    /\ safe_loader = FALSE
    /\ gs = GIdle
    /\ heap = <<>>
    /\ pj = NewProject
    /\ plast = PIdle
    /\ \E p \in ProjectPaths, meta \in Metas,
          objs \in DistinctSeqs(PersistEntries, MaxPersist) :
          persist = [PsIdle EXCEPT !.pc = "input", !.obj = MakeProject(p, meta, objs)]

\* state = project.__getstate__(), which is also what project_representer
\* puts into the project's file
GetState ==
    /\ persist.pc = "input"
    /\ LET r == get_state(persist.obj)
       IN  persist' = [persist EXCEPT !.pc = IF r.res = "ok" THEN "state" ELSE "raised",
                            !.res = r.res, !.state = r.state]
    /\ PersistFrame

\* the stored state of one entry names a class that is not registered, or
\* names no class
Tamper ==
    /\ persist.pc = "state"
    /\ persist.tamper = "none"
    /\ \E i \in 1..Len(persist.state.entries), how \in {"unregistered", "no class"} :
          persist' = [persist EXCEPT
                   !.tamper = how, !.at = i,
                   !.state.entries[i].state.has_class = (how = "unregistered"),
                   !.state.entries[i].state.class =
                       IF how = "unregistered" THEN "Entry" ELSE ""]
    /\ PersistFrame

\* loaded = Project(); loaded.__setstate__(state), as project_constructor
\* does with the mapping of the file
SetState ==
    /\ persist.pc = "state"
    /\ persist' = [persist EXCEPT !.pc = "set",
                !.loaded = set_state(PProject(FALSE, <<>>, DefaultMeta, <<>>),
                                     persist.state)]
    /\ PersistFrame

\* the state is in a file at loc, where the project was saved or where its
\* file was moved to, and a project with the path loc loads it
LoadFrom ==
    /\ persist.pc = "state"
    /\ \E loc \in {persist.obj.path, <<"/", "w", "moved">>} :
          persist' = [persist EXCEPT !.pc = "loaded", !.loc = loc,
                   !.loaded = project_load(loc, persist.state)]
    /\ PersistFrame

NextS == GetState \/ Tamper \/ SetState \/ LoadFrom

SpecS == InitS /\ [][NextS]_vars

\* two entry objects have one class and one absolute path and, as
\* projects, equal meta and the same names in the same order for entries
\* that are the same in this sense
RECURSIVE SameEntry(_, _)
SameEntry(a, b) ==
    /\ a.cls = b.cls
    /\ resolved(a) = resolved(b)
    /\ a.meta = b.meta
    /\ Len(a.entries) = Len(b.entries)
    /\ \A i \in 1..Len(a.entries) :
          /\ a.entries[i].name = b.entries[i].name
          /\ SameEntry(a.entries[i].obj, b.entries[i].obj)

\* C22: a project with a path, rebuilt from its __getstate__() by
\* __setstate__, has the same path, equal meta, the same entry names in the
\* same order and for each name an entry of the same class and the same
\* absolute path, a nested project included.
C22_StateRoundTrip ==
    (persist.pc = "set" /\ persist.tamper = "none") =>
        /\ persist.loaded.has_path = persist.obj.has_path
        /\ persist.loaded.path = persist.obj.path
        /\ SameEntry(persist.obj, persist.loaded)

\* an entry of the project, or of a project nested in it, has a relative
\* path
RECURSIVE HasRelativePath(_)
HasRelativePath(e) ==
    \E i \in 1..Len(e.entries) :
        \/ e.entries[i].obj.has_path /\ ~is_absolute(e.entries[i].obj.path)
        \/ HasRelativePath(e.entries[i].obj)

\* what the code does hold to: the round trip is exact for a project whose
\* entries have absolute paths or none, and for a project in the working
\* directory
StateRoundTripOfAbsolutePaths ==
    (/\ persist.pc = "set" /\ persist.tamper = "none"
     /\ \/ ~HasRelativePath(persist.obj)
        \/ absolute(parent(persist.obj.path)) = Cwd) =>
        /\ persist.loaded.has_path = persist.obj.has_path
        /\ persist.loaded.path = persist.obj.path
        /\ SameEntry(persist.obj, persist.loaded)

\* a sequence without its i-th element
Without(q, i) == SubSeq(q, 1, i - 1) \o SubSeq(q, i + 1, Len(q))

\* C23: a stored entry that names an unregistered class, or no class, does
\* not abort the load of a project: the project built by __setstate__, and
\* the project after load(), has every other entry, the meta mapping and the
\* path of the file's state, and only that entry is left out.
C23_UnknownClassSkipped ==
    (persist.pc \in {"set", "loaded"} /\ persist.tamper # "none") =>
        LET whole == set_state(PProject(FALSE, <<>>, DefaultMeta, <<>>),
                               get_state(persist.obj).state)
        IN  /\ persist.loaded.entries = Without(whole.entries, persist.at)
            /\ persist.loaded.meta = whole.meta
            /\ persist.loaded.has_path /\ persist.loaded.path = persist.obj.path

\* a project was loaded from a file in which the first of two entries names
\* an unregistered class, and the second entry is there
C23_Witness ==
    /\ persist.pc = "loaded"
    /\ persist.tamper = "unregistered"
    /\ persist.at = 1
    /\ Len(persist.obj.entries) = 2
    /\ Len(persist.loaded.entries) = 1
    /\ persist.loaded.entries[1].name = persist.obj.entries[2].name

\* ================================================================ shape
\* the rows and the cells per row of a comma-separated text
GridShape(text) ==
    LET lines == SelectSeq(SplitLines(text, <<>>), LAMBDA l : l # <<>>)
    IN  <<Len(lines), Commas(lines[1]) + 1>>

\* a comma-separated text of at least one row, with the same number of
\* cells in every row
IsGrid(text) ==
    LET lines == SelectSeq(SplitLines(text, <<>>), LAMBDA l : l # <<>>)
    IN  /\ Len(lines) >= 1
        /\ \A i \in 1..Len(lines) : Commas(lines[i]) = Commas(lines[1])

\* C24: a CsvEntry loaded from a comma-separated file of R rows with C
\* cells each has the shape (R, C), and a CsvEntry with empty data has the
\* shape ().
C24_CsvShape ==
    /\ (cls = "CsvEntry" /\ last.op = "load" /\ last.res = "ok"
          /\ path # NoPath /\ IsGrid(file.content))
       => csv_shape(data) = GridShape(file.content)
    /\ (cls = "CsvEntry" /\ data = Val(<<>>)) => csv_shape(data) = <<>>

\* what the code does hold to: the shape is the number of characters of the
\* file and the number of fields that the first character makes, and ()
\* for empty data
CsvShapeOfCharacters ==
    /\ (cls = "CsvEntry" /\ last.op = "load" /\ last.res = "ok"
          /\ path # NoPath /\ file.content # <<>>)
       => csv_shape(data) = <<Len(file.content), Len(csv_row(file.content[1]))>>
    /\ (cls = "CsvEntry" /\ data = Val(<<>>)) => csv_shape(data) = <<>>

\* ================================================================= sync
\* the data that a load of the file as it is now would give
FileData ==
    LET txt == read_file(cls, file)
    IN  IF txt.res # "ok" THEN [res |-> txt.res, d |-> PyNone]
        ELSE deserialize(cls, txt.text, path, file)

\* the interleavings of load, save, reads and writes of data and external
\* writes of the file, for an entry whose path stays what it was made with
NextSync == Load \/ Read \/ Set \/ Mutate \/ Save \/ Touch \/ ExtWrite

SpecSync == Init /\ [][NextSync]_vars

\* the entry has a path and data, and reports neither stale nor unsaved
InSync ==
    /\ path # NoPath
    /\ data.kind # "absent"
    /\ ~Stale
    /\ ~Unsaved

\* C25: an entry with a path and loaded data that reports is_stale False
\* and is_unsaved False holds data equal to the deserialized content of
\* its file as it is now, whatever loads, saves, reads, assignments and
\* external writes came before.
C25_SyncInvariant ==
    InSync => /\ file.exists
              /\ FileData.res = "ok"
              /\ PyEq(cls, data, FileData.d)

\* the same for a TextEntry or BinaryEntry whose bookkeeping was made by
\* a load or by a save that wrote the file, with no step since
SyncAfterLoadOrWrite ==
    (/\ InSync
     /\ cls \in {"TextEntry", "BinaryEntry"}
     /\ last.res = "ok"
     /\ last.op = "load" \/ (last.op = "save" /\ last.wrote))
    => /\ file.exists
       /\ FileData.res = "ok"
       /\ PyEq(cls, data, FileData.d)

\* ====================================================== a project's file
\* A Project is an Entry too: its data is the pair of its meta and its
\* entries (here their names), its file holds its state: path, meta, entries.

\* Project.default_data
project_default_data == << <<>>, <<>> >>

\* Project.meta: the version is set when the meta has none
with_version(d) ==
    IF \E i \in 1..Len(d[1]) : d[1][i].key = "version" THEN d
    ELSE << d[1] \o DefaultMeta, d[2] >>

\* the data a caller gives a project
ProjectDatas ==
    {<<m, n>> : m \in Metas, n \in {<<>>, <<"a">>}}

\* Project.serialize(data=self): the state of the project
project_dump(p, d) == <<p, d[1], d[2]>>

\* the project files another program writes
ProjectDocs == {project_dump(ThePath, d) : d \in ProjectDatas}

\* Project.load: the outcome, the project's path and bookkeeping afterwards
project_load_file(p, e, f) ==
    LET pre == pre_load("Project", p, e, f)
        e0 == IF e.data.kind = "absent"
              THEN [pre.e EXCEPT !.data = Val(project_default_data)] ELSE pre.e
        doc == f.content
        e1 == [e0 EXCEPT !.data = Val(<<doc[2], doc[3]>>)]
    IN  IF pre.raise THEN [res |-> "FileChanged", e |-> e0, p |-> p]
        ELSE IF p = NoPath THEN [res |-> "ok", e |-> post_load(p, e0, f), p |-> p]
        ELSE IF ~f.exists THEN [res |-> "FileNotFoundError", e |-> e0, p |-> p]
        ELSE [res |-> "ok", e |-> post_load(doc[1], e1, f), p |-> doc[1]]

\* Project.data: load when stale
project_data(p, e, f) ==
    IF is_stale(p, e, f) THEN project_load_file(p, e, f)
    ELSE [res |-> "ok", e |-> e, p |-> p]

\* Project.save: pre_save and the write in a try block, post_save in its
\* finally block
project_save(p, e, f, overwrite, dt) ==
    LET chk == pre_save(p, e, f, overwrite)
        writes == chk = "ok" /\ is_unsaved(p, e) /\ p # NoPath
        f1 == IF writes THEN write_file(f, project_dump(p, e.data.v), dt) ELSE f
        post == post_save(p, e, f1)
    IN  [res |-> IF post.res # "ok" THEN post.res ELSE chk,
         e |-> post.e, f |-> f1, wrote |-> writes]

\* Project() and Project(path=ThePath) on a project file
InitJ ==
    /\ cls = "Project"
    /\ rt = RTIdle
    /\ AuxIdle
    /\ trace = NoScenario
    /\ \E f \in {[exists |-> FALSE, content |-> <<>>, mtime |-> 0]}
                \cup {[exists |-> TRUE, content |-> x, mtime |-> 0] : x \in ProjectDocs},
          p \in {NoPath, ThePath} :
          LET new == [data |-> Absent, loaded_hash |-> EmptyHash, data_mtime |-> NoMtime]
              r == project_data(p, new, f)
          IN  /\ r.res = "ok"
              /\ file = f
              /\ path = r.p
              /\ data = Val(with_version(r.e.data.v))
              /\ loaded_hash = r.e.loaded_hash
              /\ data_mtime = r.e.data_mtime
              /\ last = [op |-> "init", res |-> "ok", arg |-> "", wrote |-> FALSE,
                         pre |-> [e |-> new, f |-> f, path |-> p, trace |-> NoScenario]]

\* project.load()
JLoad ==
    LET r == project_load_file(path, Entry, file)
    IN  /\ SetEntry(r.e)
        /\ path' = r.p
        /\ last' = Did("load", r.res, "", FALSE)
        /\ UNCHANGED <<cls, file, trace, rt, aux_vars>>

\* project.meta[...] = ..., or an entry added or removed: the data is read
\* (and loaded when stale) and then changed
JSet ==
    \E x \in ProjectDatas :
        LET r == project_data(path, Entry, file)
        IN  /\ r.res = "ok" => Val(x) # r.e.data
            /\ SetEntry(IF r.res = "ok" THEN [r.e EXCEPT !.data = Val(x)] ELSE r.e)
            /\ path' = r.p
            /\ last' = Did("set", r.res, "", FALSE)
            /\ UNCHANGED <<cls, file, trace, rt, aux_vars>>

\* project.save(overwrite)
JSave ==
    \E overwrite \in BOOLEAN, dt \in {0, 1} :
        LET r == project_save(path, Entry, file, overwrite, dt)
        IN  /\ r.f.mtime <= MaxTime
            /\ (~r.wrote => dt = 0)
            /\ SetEntry(r.e)
            /\ file' = r.f
            /\ last' = Did("save", r.res, IF overwrite THEN "overwrite" ELSE "", r.wrote)
            /\ UNCHANGED <<cls, path, trace, rt, aux_vars>>

\* project.path = ThePath on a project without a path
JSetPath ==
    /\ path = NoPath
    /\ path' = ThePath
    /\ last' = Did("setpath", "ok", "", FALSE)
    /\ UNCHANGED <<cls, file, data, loaded_hash, data_mtime, trace, rt, aux_vars>>

\* another program writes the project file: content and mtime change
JExtWrite ==
    \E x \in ProjectDocs :
        /\ file.mtime < MaxTime
        /\ file' = [exists |-> TRUE, content |-> x, mtime |-> file.mtime + 1]
        /\ last' = Did("extwrite", "ok", "", FALSE)
        /\ UNCHANGED <<cls, path, data, loaded_hash, data_mtime, trace, rt, aux_vars>>

NextJ == JLoad \/ JSet \/ JSave \/ JSetPath \/ JExtWrite

SpecJ == InitJ /\ [][NextJ]_vars

\* C26: a save() that raises MissingPath or FileChanged leaves loaded_hash
\* and data_mtime as they were before the call, for a Project as for every
\* other Entry class, so the entry stays unsaved or stale as it was.
C26_FailedSaveKeepsBookkeeping ==
    (last.op = "save" /\ last.res \in {"MissingPath", "FileChanged"})
    => /\ loaded_hash = last.pre.e.loaded_hash
       /\ data_mtime = last.pre.e.data_mtime
       /\ Unsaved = is_unsaved(last.pre.path, last.pre.e)
       /\ Stale = is_stale(last.pre.path, last.pre.e, last.pre.f)

\* ===================================================== assigned values
\* the step reads data right after `data = v` on an entry whose path names
\* an existing file
ReadAfterSet ==
    /\ last.op = "set"
    /\ last'.op = "read"
    /\ path # NoPath
    /\ file.exists

\* C27: for an entry whose path names an existing file, whether it was
\* never loaded, clean or stale, the read of data that follows `data = v`
\* returns v or raises; it never returns the file's content in place of v.
C27_AssignedValueSurvivesRead ==
    [][ReadAfterSet /\ last'.res = "ok" => data' = data]_vars

\* what the code does hold to: the assigned value survives the read when
\* the entry had been loaded before and the value differs from what the
\* load gave, or the file is not newer than the load
AssignedValueSurvivesReadWhenLoaded ==
    [][(/\ ReadAfterSet
        /\ last'.res = "ok"
        /\ data_mtime # NoMtime
        /\ Unsaved \/ ~FileNewer)
       => data' = data]_vars

\* ======================================================= a moved project
\* the loaded project has the path loc, and each of its entries whose
\* stored path is relative has that path resolved against loc's parent
BoundTo(loaded, state, loc) ==
    /\ loaded.has_path
    /\ loaded.path = loc
    /\ \A i \in 1..Len(loaded.entries), j \in 1..Len(state.entries) :
          (/\ loaded.entries[i].name = state.entries[j].name
           /\ state.entries[j].state.has_path
           /\ ~is_absolute(state.entries[j].state.path))
          => loaded.entries[i].obj.path =
                absolute(truediv(parent(loc), state.entries[j].state.path))

\* C28: after Project.load() the project's path is the path the file was
\* read from, and the entries' relative paths are resolved against that
\* file's parent directory, also when the path stored inside the file
\* names another location.
C28_LoadBindsToFileRead ==
    persist.pc = "loaded" => BoundTo(persist.loaded, persist.state, persist.loc)

\* what the code does hold to: the project is bound to the path stored in
\* the file
LoadBindsToStoredPath ==
    persist.pc = "loaded"
    => BoundTo(persist.loaded, persist.state, persist.state.path)

\* ============================================================ a new file
\* the last operation was a save() of an entry that held data and had a
\* path with no file at it
SavedToNewFile ==
    /\ last.op = "save"
    /\ PreHasData
    /\ last.pre.path # NoPath
    /\ ~last.pre.f.exists

\* C29: save() on an entry with in-memory data and a path whose file does
\* not exist yet returns normally, the file exists afterwards and the
\* entry is neither unsaved nor stale, also when the data equals
\* default_data().
C29_SaveCreatesFile ==
    SavedToNewFile
    => /\ last.res = "ok"
       /\ file.exists
       /\ ~Unsaved
       /\ ~Stale

\* what the code does hold to: the same when the data's hash differs from
\* the recorded one, for a TextEntry or BinaryEntry
SaveCreatesFileWhenUnsaved ==
    (/\ SavedToNewFile
     /\ PreUnsaved
     /\ cls \in {"TextEntry", "BinaryEntry"})
    => /\ last.res = "ok"
       /\ file.exists
       /\ ~Unsaved
       /\ ~Stale

\* ========================================================== idempotence
\* C30: assign_unique_names() is idempotent: right after a call of it, by
\* itself or at the end of add_entries, a second call leaves the names,
\* the order and the entry objects as the first call left them.
C30_AssignUniqueNamesIdempotent ==
    (plast.op \in {"assign_unique_names", "add_entries"} /\ plast.res = "ok")
    => assign_unique_names(pj.entries, heap) = pj.entries

\* what the code does hold to: the second call changes nothing when every
\* entry has a path
AssignUniqueNamesIdempotentWithPaths ==
    (/\ plast.op \in {"assign_unique_names", "add_entries"}
     /\ plast.res = "ok"
     /\ \A i \in 1..Len(pj.entries) : heap[pj.entries[i].id].has_path)
    => assign_unique_names(pj.entries, heap) = pj.entries

====
